---- MODULE Spec2Model ----
(***************************************************************************)
(* A model of the Z-machine interpreter of zwalker (src/zwalker/zmachine.py)*)
(* The memory image is a byte array; the object tree, the input buffers and *)
(* the dictionary live in it at the addresses the header names.             *)
(***************************************************************************)
EXTENDS Integers, Sequences, FiniteSets, TLC

VARIABLES version, memory, pc, stack, call_stack, locals, heap, rng, output_buffer, running, finished, waiting_for_input, pending_input_callback, instruction_count, snap, lastOp, lastArg, raised, preState, snapTaken

vars == <<version, memory, pc, stack, call_stack, locals, heap, rng, output_buffer, running, finished, waiting_for_input, pending_input_callback, instruction_count, snap, lastOp, lastArg, raised, preState, snapTaken>>

(***************************************************************************)
(* Bounds of the model                                                     *)
(***************************************************************************)
\* Number of objects in the object table of the modelled game image.
NumObjects == 3

\* The deepest call stack the model lets the program build.
MaxDepth == 2

\* write_byte / write_word are tried at the addresses less than MemWindow
\* below and above the static memory boundary.
MemWindow == 3

(***************************************************************************)
(* Bytes and words                                                         *)
(***************************************************************************)
Hi(w) == (w \div 256) % 256

Lo(w) == w % 256

WordBytes(w) == <<Hi(w), Lo(w)>>

Zeros(n) == [i \in 1..n |-> 0]

\* The versions of the game image the model loads: one on each side of the
\* version <= 3 / >= 4 split (object and dictionary layout) and of the
\* version <= 4 / >= 5 split (input buffers, routine headers).
Versions == {3, 4, 5}

(***************************************************************************)
(* The game image (the bytes handed to ZMachine.__init__)                  *)
(***************************************************************************)
HeaderSize == 64

GlobalsBytes == Zeros(4)

\* Text buffer: byte 0 is the maximum number of characters.
TextBufBytes == <<3, 0, 0, 0, 0>>

\* Parse buffer: byte 0 is the maximum number of words, then the count and
\* one four-byte entry per word.
ParseBufBytes == <<2, 0>> \o Zeros(8)

PropDefaultsBytes(v) == Zeros(IF v <= 3 THEN 62 ELSE 126)

GlobalsAddr == HeaderSize

TextBufAddr == GlobalsAddr + Len(GlobalsBytes)

ParseBufAddr == TextBufAddr + Len(TextBufBytes)

ObjTableAddr == ParseBufAddr + Len(ParseBufBytes)

ObjSize(v) == IF v <= 3 THEN 9 ELSE 14

TreeBase(v) == ObjTableAddr + Len(PropDefaultsBytes(v))

PropTableAddr(v) == TreeBase(v) + NumObjects * ObjSize(v)

\* One object entry: attributes (all clear), parent, sibling, child and the
\* address of the property table.
ObjEntryBytes(v, parent, sibling, child) == IF v <= 3 THEN Zeros(4) \o <<parent, sibling, child>> \o WordBytes(PropTableAddr(v)) ELSE Zeros(6) \o WordBytes(parent) \o WordBytes(sibling) \o WordBytes(child) \o WordBytes(PropTableAddr(v))

\* The tree of the image: object 1 is a root with the children 2 and 3 (in
\* that order); further objects are roots.
InitParent(o) == CASE o = 2 -> 1 [] o = 3 -> 1 [] OTHER -> 0

InitSibling(o) == CASE o = 2 -> 3 [] OTHER -> 0

InitChild(o) == CASE o = 1 -> 2 [] OTHER -> 0

RECURSIVE ObjectsBytes(_, _)
ObjectsBytes(v, o) == IF o > NumObjects THEN <<>> ELSE ObjEntryBytes(v, InitParent(o), InitSibling(o), InitChild(o)) \o ObjectsBytes(v, o + 1)

\* An empty property table shared by all objects: no short name, no property.
PropTableBytes == <<0, 0>>

StaticAddr(v) == PropTableAddr(v) + Len(PropTableBytes)

\* Dictionary: one separator (","), entries of the encoded word plus one
\* data byte, two entries in ascending order: "a" and "b".
DictEntryLen(v) == IF v <= 3 THEN 5 ELSE 7

DictBytes(v) == <<1, 44, DictEntryLen(v), 0, 2>> \o (IF v <= 3 THEN <<24, 165, 148, 165, 0, 28, 165, 148, 165, 0>> ELSE <<24, 165, 20, 165, 148, 165, 0, 28, 165, 20, 165, 148, 165, 0>>)

DictAddr(v) == StaticAddr(v)

\* The routine of the image: one local; versions <= 4 keep its default in the
\* routine header.  Routine addresses are multiples of the packing factor.
PackFactor(v) == IF v <= 3 THEN 2 ELSE 4

RoutineAddr(v) == ((DictAddr(v) + Len(DictBytes(v)) + PackFactor(v) - 1) \div PackFactor(v)) * PackFactor(v)

\* The routine the main program calls: one local (default 1 in versions
\* <= 4), then  sread text parse  (aread text parse -> local 1 in versions
\* >= 5)  and  ret 2.
RoutineBytes(v) == IF v <= 4 THEN <<1, 0, 1, 228, 95, TextBufAddr, ParseBufAddr, 155, 2>> ELSE <<1, 228, 95, TextBufAddr, ParseBufAddr, 1, 155, 2>>

InitialPC(v) == RoutineAddr(v) + Len(RoutineBytes(v))

\* The main program:  call routine 7 -> local 1;  sread text parse  (aread
\* text parse -> global 16);  read_char 1 -> sp;  quit.
CodeBytes(v) == <<224, 31, Hi(RoutineAddr(v) \div PackFactor(v)), Lo(RoutineAddr(v) \div PackFactor(v)), 7, 1>> \o (IF v <= 4 THEN <<228, 95, TextBufAddr, ParseBufAddr>> ELSE <<228, 95, TextBufAddr, ParseBufAddr, 16>>) \o <<246, 127, 1, 0, 186>>

HeaderBytes(v) == [i \in 1..HeaderSize |-> LET a == i - 1 IN CASE a = 0 -> v [] a = 4 -> Hi(RoutineAddr(v)) [] a = 5 -> Lo(RoutineAddr(v)) [] a = 6 -> Hi(InitialPC(v)) [] a = 7 -> Lo(InitialPC(v)) [] a = 8 -> Hi(DictAddr(v)) [] a = 9 -> Lo(DictAddr(v)) [] a = 10 -> Hi(ObjTableAddr) [] a = 11 -> Lo(ObjTableAddr) [] a = 12 -> Hi(GlobalsAddr) [] a = 13 -> Lo(GlobalsAddr) [] a = 14 -> Hi(StaticAddr(v)) [] a = 15 -> Lo(StaticAddr(v)) [] OTHER -> 0]

ImageSeq(v) == HeaderBytes(v) \o GlobalsBytes \o TextBufBytes \o ParseBufBytes \o PropDefaultsBytes(v) \o ObjectsBytes(v, 1) \o PropTableBytes \o DictBytes(v) \o Zeros(RoutineAddr(v) - (DictAddr(v) + Len(DictBytes(v)))) \o RoutineBytes(v) \o CodeBytes(v)

\* original_data: the loaded image.  A byte array is a sequence of bytes;
\* the byte at address a is element a + 1.
Image == [v \in Versions |-> ImageSeq(v)]

(***************************************************************************)
(* Header                                                                  *)
(***************************************************************************)
ReadByte(m, addr) == m[addr + 1]

ReadWord(m, addr) == m[addr + 1] * 256 + m[addr + 2]

ParseHeader(m) == [version |-> ReadByte(m, 0), high_memory |-> ReadWord(m, 4), initial_pc |-> ReadWord(m, 6), dictionary |-> ReadWord(m, 8), object_table |-> ReadWord(m, 10), globals |-> ReadWord(m, 12), static_memory |-> ReadWord(m, 14), abbreviations |-> ReadWord(m, 24)]

\* self.header: parsed from the image at load and never changed afterwards.
HeaderOf == [v \in Versions |-> ParseHeader(Image[v])]

Header == HeaderOf[version]

\* len(self.memory)
MemLen == Len(memory)

(***************************************************************************)
(* Memory access.  The operations that change the machine take a record s  *)
(* of its state and give the state they leave.  s.mem is the memory and     *)
(* s.exc the exception that was raised ("none" while there is none): once   *)
(* an exception is raised the statements that follow are not executed, so   *)
(* every operation leaves a state with an exception as it is.               *)
(***************************************************************************)
Raise(s, e) == [s EXCEPT !.exc = e]

WriteByteUnguarded(s, addr, value) == IF s.exc # "none" THEN s ELSE [s EXCEPT !.mem[addr + 1] = value % 256]

WriteByte(s, addr, value) == IF s.exc # "none" THEN s ELSE IF addr >= Header.static_memory THEN Raise(s, "ZMachineError") ELSE [s EXCEPT !.mem[addr + 1] = value % 256]

\* The two byte stores are separate statements: the second can fail (past the
\* end of the image) after the first was done.
WriteWord(s, addr, value) == IF s.exc # "none" THEN s ELSE IF addr >= Header.static_memory THEN Raise(s, "ZMachineError") ELSE IF addr + 1 >= Len(s.mem) THEN Raise([s EXCEPT !.mem[addr + 1] = Hi(value)], "IndexError") ELSE [s EXCEPT !.mem[addr + 1] = Hi(value), !.mem[addr + 2] = Lo(value)]

(***************************************************************************)
(* Object tree                                                             *)
(***************************************************************************)
\* 0 stands for Python's None (the callers test "not addr").
ObjectAddressIn(obj_num, max_obj, addr, obj_size, len) == IF obj_num = 0 \/ obj_num > max_obj THEN 0 ELSE IF addr < 0 \/ addr + obj_size > len THEN 0 ELSE addr

GetObjectAddress(m, obj_num) == IF version <= 3 THEN ObjectAddressIn(obj_num, 255, Header.object_table + 62 + (obj_num - 1) * 9, 9, Len(m)) ELSE ObjectAddressIn(obj_num, 65535, Header.object_table + 126 + (obj_num - 1) * 14, 14, Len(m))

\* The byte (versions <= 3) or word (versions >= 4) field of the object entry
\* at addr; 0 when there is no such object.
ObjectField(m, addr, off3, off4) == IF addr = 0 THEN 0 ELSE IF version <= 3 THEN ReadByte(m, addr + off3) ELSE ReadWord(m, addr + off4)

SetObjectField(s, addr, off3, off4, value) == IF addr = 0 THEN s ELSE IF version <= 3 THEN WriteByte(s, addr + off3, value) ELSE WriteWord(s, addr + off4, value)

GetObjectParent(m, obj_num) == ObjectField(m, GetObjectAddress(m, obj_num), 4, 6)

GetObjectSibling(m, obj_num) == ObjectField(m, GetObjectAddress(m, obj_num), 5, 8)

GetObjectChild(m, obj_num) == ObjectField(m, GetObjectAddress(m, obj_num), 6, 10)

SetObjectParent(s, obj_num, parent) == SetObjectField(s, GetObjectAddress(s.mem, obj_num), 4, 6, parent)

SetObjectSibling(s, obj_num, sibling) == SetObjectField(s, GetObjectAddress(s.mem, obj_num), 5, 8, sibling)

SetObjectChild(s, obj_num, child) == SetObjectField(s, GetObjectAddress(s.mem, obj_num), 6, 10, child)

\* The loop of remove_object that looks for the sibling before obj: the
\* result is that sibling, 0 when the chain ends first, and -1 when the loop
\* has not ended after `fuel` iterations (more than there are objects: the
\* chain is a cycle without obj and the loop never ends).
RECURSIVE FindPrev(_, _, _, _)
FindPrev(m, prev, obj, fuel) == IF prev = 0 \/ GetObjectSibling(m, prev) = obj THEN prev ELSE IF fuel = 0 THEN -1 ELSE FindPrev(m, GetObjectSibling(m, prev), obj, fuel - 1)

\* remove_object, the else branch: obj is not the first child of its parent.
UnlinkAfter(s, obj, prev) == IF prev = -1 THEN Raise(s, "hang") ELSE IF prev # 0 THEN SetObjectSibling(s, prev, GetObjectSibling(s.mem, obj)) ELSE s

\* remove_object, from the test of the parent's first child on.
Unlink(s, obj, parent, first) == IF first = obj THEN SetObjectChild(s, parent, GetObjectSibling(s.mem, obj)) ELSE UnlinkAfter(s, obj, FindPrev(s.mem, first, obj, NumObjects + 1))

RemoveFrom(s, obj, parent) == IF s.exc # "none" \/ parent = 0 THEN s ELSE SetObjectSibling(SetObjectParent(Unlink(s, obj, parent, GetObjectChild(s.mem, parent)), obj, 0), obj, 0)

\* The removal that leaves the sibling link of the object as it was.
RemoveKeepingSibling(s, obj) == IF s.exc # "none" \/ GetObjectParent(s.mem, obj) = 0 THEN s ELSE SetObjectParent(Unlink(s, obj, GetObjectParent(s.mem, obj), GetObjectChild(s.mem, GetObjectParent(s.mem, obj))), obj, 0)

RemoveObject(s, obj) == RemoveFrom(s, obj, GetObjectParent(s.mem, obj))

\* insert_object after its remove_object: old_child is read before the links
\* are written.
LinkFirst(s, obj, dest, old_child) == SetObjectChild(SetObjectSibling(SetObjectParent(s, obj, dest), obj, old_child), dest, obj)

InsertDetached(s, obj, dest) == IF s.exc # "none" \/ dest = 0 THEN s ELSE LinkFirst(s, obj, dest, GetObjectChild(s.mem, dest))

InsertObject(s, obj, dest) == InsertDetached(RemoveObject(s, obj), obj, dest)

(***************************************************************************)
(* Attributes: get_attribute, set_attribute, clear_attribute               *)
(***************************************************************************)
AttrAddr(m, obj_num, attr) == GetObjectAddress(m, obj_num) + (attr \div 8)

AttrMask(attr) == 2 ^ (7 - (attr % 8))

BitSet(val, mask) == (val \div mask) % 2 = 1

GetAttribute(m, obj_num, attr) == IF GetObjectAddress(m, obj_num) = 0 THEN [val |-> FALSE, exc |-> "none"] ELSE IF AttrAddr(m, obj_num, attr) >= Len(m) THEN [val |-> FALSE, exc |-> "IndexError"] ELSE [val |-> BitSet(ReadByte(m, AttrAddr(m, obj_num, attr)), AttrMask(attr)), exc |-> "none"]

SetAttribute(s, obj_num, attr) == IF s.exc # "none" \/ GetObjectAddress(s.mem, obj_num) = 0 THEN s ELSE IF AttrAddr(s.mem, obj_num, attr) >= Len(s.mem) THEN Raise(s, "IndexError") ELSE WriteByte(s, AttrAddr(s.mem, obj_num, attr), IF BitSet(ReadByte(s.mem, AttrAddr(s.mem, obj_num, attr)), AttrMask(attr)) THEN ReadByte(s.mem, AttrAddr(s.mem, obj_num, attr)) ELSE ReadByte(s.mem, AttrAddr(s.mem, obj_num, attr)) + AttrMask(attr))

ClearAttribute(s, obj_num, attr) == IF s.exc # "none" \/ GetObjectAddress(s.mem, obj_num) = 0 THEN s ELSE IF AttrAddr(s.mem, obj_num, attr) >= Len(s.mem) THEN Raise(s, "IndexError") ELSE WriteByte(s, AttrAddr(s.mem, obj_num, attr), IF BitSet(ReadByte(s.mem, AttrAddr(s.mem, obj_num, attr)), AttrMask(attr)) THEN ReadByte(s.mem, AttrAddr(s.mem, obj_num, attr)) - AttrMask(attr) ELSE ReadByte(s.mem, AttrAddr(s.mem, obj_num, attr)))

(***************************************************************************)
(* Properties                                                              *)
(***************************************************************************)
GetObjectPropAddr(m, obj_num) == IF GetObjectAddress(m, obj_num) = 0 THEN 0 ELSE ReadWord(m, GetObjectAddress(m, obj_num) + (IF version <= 3 THEN 7 ELSE 12))

\* The entry whose size byte is at address a: its property number, whether
\* it has a second size byte, its size and the address of its data.
PropNum(m, a) == ReadByte(m, a) % (IF version <= 3 THEN 32 ELSE 64)

PropTwoBytes(m, a) == version >= 4 /\ ReadByte(m, a) >= 128

PropSize(m, a) == IF version <= 3 THEN (ReadByte(m, a) \div 32) + 1 ELSE IF ReadByte(m, a) >= 128 THEN (IF ReadByte(m, a + 1) % 64 = 0 THEN 64 ELSE ReadByte(m, a + 1) % 64) ELSE IF (ReadByte(m, a) \div 64) % 2 = 0 THEN 1 ELSE 2

PropData(m, a) == a + (IF PropTwoBytes(m, a) THEN 2 ELSE 1)

Found(data_addr, size, exc) == [data_addr |-> data_addr, size |-> size, exc |-> exc]

\* The loop of _find_property from the entry at address a.
RECURSIVE FindFrom(_, _, _)
FindFrom(m, a, prop_num) == IF a >= Len(m) THEN Found(0, 0, "IndexError") ELSE IF ReadByte(m, a) = 0 THEN Found(0, 0, "none") ELSE IF PropTwoBytes(m, a) /\ a + 1 >= Len(m) THEN Found(0, 0, "IndexError") ELSE IF PropNum(m, a) = prop_num THEN Found(PropData(m, a), PropSize(m, a), "none") ELSE FindFrom(m, PropData(m, a) + PropSize(m, a), prop_num)

\* The address of the first entry of the table at prop_addr, after the name.
FirstEntry(m, prop_addr) == prop_addr + 1 + ReadByte(m, prop_addr) * 2

FindIn(m, prop_addr, prop_num) == IF prop_addr = 0 THEN Found(0, 0, "none") ELSE IF prop_addr >= Len(m) THEN Found(0, 0, "IndexError") ELSE FindFrom(m, FirstEntry(m, prop_addr), prop_num)

FindProperty(m, obj_num, prop_num) == FindIn(m, GetObjectPropAddr(m, obj_num), prop_num)

Value(val, exc) == [val |-> val, exc |-> exc]

WordValue(m, addr) == IF addr < 0 \/ addr + 1 >= Len(m) THEN Value(0, "IndexError") ELSE Value(ReadWord(m, addr), "none")

ByteValue(m, addr) == IF addr >= Len(m) THEN Value(0, "IndexError") ELSE Value(ReadByte(m, addr), "none")

PropertyOrZero(m, found, prop_num) == IF found.exc # "none" THEN Value(0, found.exc) ELSE IF found.data_addr = 0 THEN Value(0, "none") ELSE IF found.size = 1 THEN ByteValue(m, found.data_addr) ELSE WordValue(m, found.data_addr)

PropertyOf(m, found, prop_num) == IF found.exc # "none" THEN Value(0, found.exc) ELSE IF found.data_addr = 0 THEN WordValue(m, Header.object_table + (prop_num - 1) * 2) ELSE IF found.size = 1 THEN ByteValue(m, found.data_addr) ELSE WordValue(m, found.data_addr)

GetPropertyAddr(m, obj_num, prop_num) == Value(FindProperty(m, obj_num, prop_num).data_addr, FindProperty(m, obj_num, prop_num).exc)

\* The size the byte before the data tells when it is taken for a one-byte
\* header.
GetPropertyLenOneByte(m, data_addr) == IF data_addr = 0 THEN Value(0, "none") ELSE IF data_addr - 1 >= Len(m) THEN Value(0, "IndexError") ELSE IF version <= 3 THEN Value((ReadByte(m, data_addr - 1) \div 32) + 1, "none") ELSE Value(IF (ReadByte(m, data_addr - 1) \div 64) % 2 = 1 THEN 2 ELSE 1, "none")

GetPropertyLen(m, data_addr) == IF data_addr = 0 THEN Value(0, "none") ELSE IF data_addr - 1 >= Len(m) THEN Value(0, "IndexError") ELSE IF version <= 3 THEN Value((ReadByte(m, data_addr - 1) \div 32) + 1, "none") ELSE IF ReadByte(m, data_addr - 1) >= 128 THEN Value(IF ReadByte(m, data_addr - 1) % 64 = 0 THEN 64 ELSE ReadByte(m, data_addr - 1) % 64, "none") ELSE Value(IF (ReadByte(m, data_addr - 1) \div 64) % 2 = 1 THEN 2 ELSE 1, "none")

GetProperty(m, obj_num, prop_num) == PropertyOf(m, FindProperty(m, obj_num, prop_num), prop_num)

\* The property number of the entry at address a, 0 at the end of the table.
NumAt(m, a) == IF a >= Len(m) THEN Value(0, "IndexError") ELSE Value(PropNum(m, a), "none")

\* The loop of get_next_property from the entry at address a.
RECURSIVE NextFrom(_, _, _)
NextFrom(m, a, prop_num) == IF a >= Len(m) THEN Value(0, "IndexError") ELSE IF ReadByte(m, a) = 0 THEN Value(0, "none") ELSE IF PropTwoBytes(m, a) /\ a + 1 >= Len(m) THEN Value(0, "IndexError") ELSE IF PropNum(m, a) = prop_num THEN NumAt(m, PropData(m, a) + PropSize(m, a)) ELSE NextFrom(m, PropData(m, a) + PropSize(m, a), prop_num)

NextEnds(m, first, prop_num) == IF prop_num = 0 THEN NumAt(m, first) ELSE Value(0, "none")

NextIn(m, first, prop_num) == IF prop_num = 0 THEN NumAt(m, first) ELSE NextFrom(m, first, prop_num)

NextOf(m, prop_addr, prop_num) == IF prop_addr = 0 THEN Value(0, "none") ELSE IF prop_addr >= Len(m) THEN Value(0, "IndexError") ELSE NextIn(m, FirstEntry(m, prop_addr), prop_num)

GetNextProperty(m, obj_num, prop_num) == NextOf(m, GetObjectPropAddr(m, obj_num), prop_num)

(***************************************************************************)
(* The state after ZMachine.__init__                                       *)
(***************************************************************************)
NumLocalSlots == 16

ZeroLocals == [i \in 1..NumLocalSlots |-> 0]

\* The list objects that hold local variables.  Python lists are shared by
\* reference: `locals` and the frames of a call stack name a list of the
\* heap.  A list nothing names any more is garbage; the model gives its cell
\* the value ZeroLocals again.
Refs == 1..(2 * (MaxDepth + 1))

\* -1 stands for store_var = None.
NoStore == 0 - 1

\* No branch information: branch = None.
NoBranch == [offset |-> 0, on_true |-> FALSE]

\* No closure is registered: pending_input_callback = None.
NoCallback == [kind |-> "none", text_buffer |-> 0, parse_buffer |-> 0, store_var |-> NoStore]

NoSnap == [taken |-> FALSE]

\* The generator random.Random(): how it was last seeded (from the number
\* seed, or from system entropy, here the value seed) and the arguments of
\* the randint calls made since.
Unseeded(e) == [seeded |-> FALSE, seed |-> e, draws |-> <<>>]

Seeded(n) == [seeded |-> TRUE, seed |-> n, draws |-> <<>>]

\* The machine constructed from the image m, version v, with entropy e.
InitCPU(v, m, e) == /\ version = v /\ memory = m /\ pc = HeaderOf[v].initial_pc /\ stack = <<>> /\ call_stack = <<>> /\ locals = 1 /\ heap = [r \in Refs |-> ZeroLocals] /\ rng = Unseeded(e) /\ output_buffer = <<>> /\ running = FALSE /\ finished = FALSE /\ waiting_for_input = FALSE /\ pending_input_callback = NoCallback /\ instruction_count = 0

InitVM(v) == InitCPU(v, Image[v], 0)

InitHost == /\ snap = NoSnap /\ lastOp = "init" /\ lastArg = <<>> /\ raised = "none" /\ preState = [op |-> "init", waiting |-> FALSE] /\ snapTaken = [view |-> <<>>, waiting |-> FALSE, callback |-> NoCallback]

vmVars == <<pc, stack, call_stack, locals, heap, rng, output_buffer, running, finished, waiting_for_input, pending_input_callback, instruction_count>>

hostVars == <<snap, snapTaken>>

(***************************************************************************)
(* The machine as a record: the state the methods of ZMachine read and      *)
(* change.  val is the value the last get_variable / pop / get_operand      *)
(* returned, ops the operand values of the instruction being executed and   *)
(* cont the value step returns.                                            *)
(***************************************************************************)
Self == [mem |-> memory, exc |-> "none", pc |-> pc, stack |-> stack, call_stack |-> call_stack, locals |-> locals, heap |-> heap, rng |-> rng, out |-> output_buffer, running |-> running, finished |-> finished, waiting |-> waiting_for_input, callback |-> pending_input_callback, count |-> instruction_count, val |-> 0, ops |-> <<>>, cont |-> TRUE, name |-> "", operands |-> <<>>, store_var |-> NoStore, branch |-> NoBranch, trace |-> <<>>, entropy |-> 0, printed |-> <<>>]

\* The machine when the operating system will supply entropy e.
SelfWith(e) == [Self EXCEPT !.entropy = e]

\* The list objects a call stack names.
FrameRefs(frames) == {frames[i].locals : i \in 1..Len(frames)}

\* The list objects the snapshot the host holds names.
SnapRefs == IF snap.taken THEN FrameRefs(snap.call_stack) ELSE {}

\* A new list object: a cell no live object names.
FreshRef(used) == CHOOSE r \in Refs \ used : \A q \in Refs \ used : r <= q

(***************************************************************************)
(* Stack and variables                                                     *)
(***************************************************************************)
Push(s, value) == IF s.exc # "none" THEN s ELSE [s EXCEPT !.stack = Append(@, value % 65536)]

Pop(s) == IF s.exc # "none" THEN s ELSE IF s.stack = <<>> THEN Raise(s, "ZMachineError") ELSE [s EXCEPT !.val = s.stack[Len(s.stack)], !.stack = SubSeq(s.stack, 1, Len(s.stack) - 1)]

GetVariable(s, var_num) == IF s.exc # "none" THEN s ELSE IF var_num = 0 THEN Pop(s) ELSE IF var_num < 16 THEN [s EXCEPT !.val = s.heap[s.locals][var_num]] ELSE IF Header.globals + (var_num - 16) * 2 + 1 >= Len(s.mem) THEN Raise(s, "IndexError") ELSE [s EXCEPT !.val = ReadWord(s.mem, Header.globals + (var_num - 16) * 2)]

\* A store to a local changes the list object self.locals names, in place.
SetVariable(s, var_num, value) == IF s.exc # "none" THEN s ELSE IF var_num = 0 THEN Push(s, value % 65536) ELSE IF var_num < 16 THEN [s EXCEPT !.heap[s.locals][var_num] = value % 65536] ELSE WriteWord(s, Header.globals + (var_num - 16) * 2, value % 65536)

\* An operand is a constant or a variable reference ('var', n).
GetOperand(s, operand) == IF s.exc # "none" THEN s ELSE IF operand.type = "var" THEN GetVariable(s, operand.n) ELSE [s EXCEPT !.val = operand.n]

\* ops = [self.get_operand(op) for op in operands], left to right.
AppendVal(s) == IF s.exc # "none" THEN s ELSE [s EXCEPT !.ops = Append(@, s.val)]

RECURSIVE EvalOperands(_, _)
EvalOperands(s, operands) == IF s.exc # "none" \/ operands = <<>> THEN s ELSE EvalOperands(AppendVal(GetOperand(s, Head(operands))), Tail(operands))

UnpackAddress(packed) == IF version <= 3 THEN packed * 2 ELSE IF version <= 5 THEN packed * 4 ELSE packed * 8

(***************************************************************************)
(* Calls and returns                                                       *)
(***************************************************************************)
\* The locals of the called routine: zero, the defaults of the routine
\* header in versions <= 4, and over these the arguments args[:num_locals].
InitialLocalsAllArgs(m, routine_addr, num_locals, args) == [i \in 1..NumLocalSlots |-> IF i <= Len(args) THEN args[i] ELSE IF version <= 4 /\ i <= num_locals THEN ReadWord(m, routine_addr + 1 + 2 * (i - 1)) ELSE 0]

InitialLocals(m, routine_addr, num_locals, args) == [i \in 1..NumLocalSlots |-> IF i <= Len(args) /\ i <= num_locals THEN args[i] ELSE IF version <= 4 /\ i <= num_locals THEN ReadWord(m, routine_addr + 1 + 2 * (i - 1)) ELSE 0]

\* frame = CallFrame(..., locals=list(self.locals), ...): the copy is the new
\* list object r.
SaveFrame(s, r, num_locals, store_var) == [s EXCEPT !.heap[r] = s.heap[s.locals], !.call_stack = Append(@, [return_pc |-> s.pc, locals |-> r, num_locals |-> num_locals, store_var |-> store_var, stack_depth |-> Len(s.stack)])]

\* self.locals = [0] * 16 and its initialisation: the new list object r.
NewLocals(s, r, values) == [s EXCEPT !.locals = r, !.heap[r] = values]

\* How many default words the loop of versions 1 to 4 loads before a read
\* past the end of memory or a write past the sixteenth local stops it.
Loadable(m, routine_addr, num_locals) == IF version >= 5 THEN num_locals ELSE IF num_locals <= NumLocalSlots /\ routine_addr + 2 * num_locals < Len(m) THEN num_locals ELSE IF (Len(m) - routine_addr - 1) \div 2 < NumLocalSlots THEN (Len(m) - routine_addr - 1) \div 2 ELSE NumLocalSlots

EnterRoutine(s, routine_addr, num_locals, args, store_var) == IF Loadable(s.mem, routine_addr, num_locals) < num_locals THEN Raise(NewLocals(s, FreshRef(FrameRefs(s.call_stack) \cup SnapRefs), InitialLocals(s.mem, routine_addr, Loadable(s.mem, routine_addr, num_locals), <<>>)), "IndexError") ELSE [NewLocals(s, FreshRef(FrameRefs(s.call_stack) \cup SnapRefs), InitialLocals(s.mem, routine_addr, num_locals, args)) EXCEPT !.pc = routine_addr + 1 + (IF version <= 4 THEN 2 * num_locals ELSE 0)]

CallAt(s, routine_addr, num_locals, args, store_var) == EnterRoutine(SaveFrame(s, FreshRef({s.locals} \cup FrameRefs(s.call_stack) \cup SnapRefs), num_locals, store_var), routine_addr, num_locals, args, store_var)

CallRoutine(s, packed_addr, args, store_var) == IF s.exc # "none" THEN s ELSE IF packed_addr = 0 THEN (IF store_var # NoStore THEN SetVariable(s, store_var, 0) ELSE s) ELSE IF UnpackAddress(packed_addr) >= Len(s.mem) THEN Raise(s, "IndexError") ELSE CallAt(s, UnpackAddress(packed_addr), ReadByte(s.mem, UnpackAddress(packed_addr)), args, store_var)

\* _return with a frame on the call stack: self.locals = frame.locals makes
\* self.locals the list object the frame named.
LeaveFrame(s, frame) == [s EXCEPT !.pc = frame.return_pc, !.locals = frame.locals, !.stack = SubSeq(@, 1, IF Len(@) > frame.stack_depth THEN frame.stack_depth ELSE Len(@))]

ReturnTo(s, frame, value) == IF frame.store_var # NoStore THEN SetVariable(LeaveFrame(s, frame), frame.store_var, value) ELSE LeaveFrame(s, frame)

ReturnUnfinished(s, value) == IF s.exc # "none" THEN s ELSE IF s.call_stack = <<>> THEN s ELSE ReturnTo([s EXCEPT !.call_stack = SubSeq(@, 1, Len(@) - 1)], s.call_stack[Len(s.call_stack)], value)

Return(s, value) == IF s.exc # "none" THEN s ELSE IF s.call_stack = <<>> THEN [s EXCEPT !.finished = TRUE, !.running = FALSE] ELSE ReturnTo([s EXCEPT !.call_stack = SubSeq(@, 1, Len(@) - 1)], s.call_stack[Len(s.call_stack)], value)

(***************************************************************************)
(* Instruction decoding (decode_instruction and its helpers).  The decoded  *)
(* instruction is left in name, operands, store_var and branch.  The images *)
(* of this module hold no print instruction, so inline text is not read.    *)
(***************************************************************************)
FetchByte(s) == IF s.exc # "none" THEN s ELSE IF s.pc >= Len(s.mem) THEN Raise(s, "IndexError") ELSE [s EXCEPT !.val = ReadByte(s.mem, s.pc), !.pc = @ + 1]

FetchWord(s) == IF s.exc # "none" THEN s ELSE IF s.pc + 1 >= Len(s.mem) THEN Raise(s, "IndexError") ELSE [s EXCEPT !.val = ReadWord(s.mem, s.pc), !.pc = @ + 2]

AppendOperand(s, type) == IF s.exc # "none" THEN s ELSE [s EXCEPT !.operands = Append(@, [type |-> type, n |-> s.val])]

\* One operand of type 0 (large constant), 1 (small constant) or 2 (variable).
ReadOperand(s, op_type) == CASE op_type = 0 -> AppendOperand(FetchWord(s), "const") [] op_type = 1 -> AppendOperand(FetchByte(s), "const") [] op_type = 2 -> AppendOperand(FetchByte(s), "var") [] OTHER -> s

OpTypeLowFirst(types_byte, i) == (types_byte \div (4 ^ i)) % 4

OpType(types_byte, i) == (types_byte \div (4 ^ (3 - i))) % 4

RECURSIVE ReadOperandsFromTypes(_, _, _)
ReadOperandsFromTypes(s, types_byte, i) == IF s.exc # "none" \/ i >= 4 THEN s ELSE IF OpType(types_byte, i) = 3 THEN s ELSE ReadOperandsFromTypes(ReadOperand(s, OpType(types_byte, i)), types_byte, i + 1)

\* The types byte has just been fetched into val.
OperandsOfTypes(s) == IF s.exc # "none" THEN s ELSE ReadOperandsFromTypes(s, s.val, 0)

SetStore(s) == IF s.exc # "none" THEN s ELSE [s EXCEPT !.store_var = s.val]

ReadStore(s, has_store) == IF has_store THEN SetStore(FetchByte(s)) ELSE s

LongBranch(s, first) == IF s.exc # "none" THEN s ELSE [s EXCEPT !.branch = [offset |-> IF (first % 64) * 256 + s.val >= 8192 THEN (first % 64) * 256 + s.val - 16384 ELSE (first % 64) * 256 + s.val, on_true |-> first >= 128]]

BranchOf(s) == IF s.exc # "none" THEN s ELSE IF (s.val \div 64) % 2 = 1 THEN [s EXCEPT !.branch = [offset |-> s.val % 64, on_true |-> s.val >= 128]] ELSE LongBranch(FetchByte(s), s.val)

ReadBranch(s, has_branch) == IF has_branch THEN BranchOf(FetchByte(s)) ELSE s

Decoded(s, name, has_store, has_branch) == IF s.exc # "none" THEN s ELSE ReadBranch(ReadStore([s EXCEPT !.name = name], has_store), has_branch)

\* The opcode tables: the name of opcode number n is element n + 1.
SHORT_0OP == <<"rtrue", "rfalse", "print", "print_ret", "nop", "save", "restore", "restart", "ret_popped", "pop", "quit", "new_line", "show_status", "verify", "extended", "piracy">>

SHORT_1OP == <<"jz", "get_sibling", "get_child", "get_parent", "get_prop_len", "inc", "dec", "print_addr", "call_1s", "remove_obj", "print_obj", "ret", "jump", "print_paddr", "load", "not">>

LONG_2OP == <<"2op_00", "je", "jl", "jg", "dec_chk", "inc_chk", "jin", "test", "or", "and", "test_attr", "set_attr", "clear_attr", "store", "insert_obj", "loadw", "loadb", "get_prop", "get_prop_addr", "get_next_prop", "add", "sub", "mul", "div", "mod", "call_2s", "call_2n", "set_colour", "throw", "2op_1d", "2op_1e", "2op_1f">>

VAR_VAR == <<"call", "storew", "storeb", "put_prop", "sread", "print_char", "print_num", "random", "push", "pull", "split_window", "set_window", "call_vs2", "erase_window", "erase_line", "set_cursor", "get_cursor", "set_text_style", "buffer_mode", "output_stream", "input_stream", "sound_effect", "read_char", "scan_table", "not", "call_vn", "call_vn2", "tokenise", "encode_text", "copy_table", "print_table", "check_arg_count">>

\* The opcode numbers of each table that store a result, and that branch.
Store0OP == IF version >= 5 THEN {5, 6, 9} ELSE IF version >= 4 THEN {5, 6} ELSE {}

Branch0OP == IF version >= 4 THEN {13, 15} ELSE {5, 6, 13, 15}

Store1OP == IF version >= 5 THEN {1, 2, 3, 4, 8, 14} ELSE {1, 2, 3, 4, 8, 14, 15}

Branch1OP == {0, 1, 2}

Store2OP == {8, 9} \cup (15..25)

Branch2OP == {1, 2, 3, 4, 5, 6, 7, 10}

StoreVAR == IF version >= 5 THEN {0, 4, 7, 12, 22, 23, 24} ELSE {0, 7, 12, 22, 23, 24}

BranchVAR == {23, 31}

Name0OP(opnum) == IF opnum = 9 /\ version >= 5 THEN "catch" ELSE SHORT_0OP[opnum + 1]

Name1OPUnversioned(opnum) == SHORT_1OP[opnum + 1]

Name1OP(opnum) == IF opnum = 15 /\ version >= 5 THEN "call_1n" ELSE SHORT_1OP[opnum + 1]

NameVAR(opnum) == IF opnum = 4 /\ version >= 5 THEN "aread" ELSE VAR_VAR[opnum + 1]

DecodeShort(s, opcode) == IF (opcode \div 16) % 4 = 3 THEN Decoded(s, Name0OP(opcode % 16), (opcode % 16) \in Store0OP, (opcode % 16) \in Branch0OP) ELSE Decoded(ReadOperand(s, (opcode \div 16) % 4), Name1OP(opcode % 16), (opcode % 16) \in Store1OP, (opcode % 16) \in Branch1OP)

DecodeLong(s, opcode) == Decoded(AppendOperand(FetchByte(AppendOperand(FetchByte(s), IF (opcode \div 64) % 2 = 1 THEN "var" ELSE "const")), IF (opcode \div 32) % 2 = 1 THEN "var" ELSE "const"), LONG_2OP[(opcode % 32) + 1], (opcode % 32) \in Store2OP, (opcode % 32) \in Branch2OP)

DecodeVar2OP(s, opnum) == Decoded(OperandsOfTypes(FetchByte(s)), LONG_2OP[opnum + 1], opnum \in Store2OP, opnum \in Branch2OP)

\* call_vs2 and call_vn2 with four operands read a second types byte.
MoreOperands(s, opnum) == IF s.exc = "none" /\ opnum \in {12, 26} /\ Len(s.operands) = 4 THEN OperandsOfTypes(FetchByte(s)) ELSE s

DecodeVarVar(s, opnum) == Decoded(MoreOperands(OperandsOfTypes(FetchByte(s)), opnum), NameVAR(opnum), opnum \in StoreVAR, opnum \in BranchVAR)

\* The EXTENDED table; a number outside it is named after the number, here
\* by one name for all of them.
NameEXT(ext_opnum) == CASE ext_opnum = 0 -> "save" [] ext_opnum = 1 -> "restore" [] ext_opnum = 2 -> "log_shift" [] ext_opnum = 3 -> "art_shift" [] ext_opnum = 4 -> "set_font" [] ext_opnum = 9 -> "save_undo" [] ext_opnum = 10 -> "restore_undo" [] ext_opnum = 11 -> "print_unicode" [] ext_opnum = 12 -> "check_unicode" [] OTHER -> "ext_xx"

StoreEXT == {0, 1, 2, 3, 4, 9, 10, 12}

\* The extended number has just been fetched into val.
ExtendedOf(s) == IF s.exc # "none" THEN s ELSE Decoded(OperandsOfTypes(FetchByte(s)), NameEXT(s.val), s.val \in StoreEXT, FALSE)

DecodeExtended(s) == ExtendedOf(FetchByte(s))

\* The form of the instruction without the extended form of version 5.
DispatchNoExtended(s) == IF s.exc # "none" THEN s ELSE IF s.val >= 192 THEN (IF s.val < 224 THEN DecodeVar2OP(s, s.val % 32) ELSE DecodeVarVar(s, s.val % 32)) ELSE IF s.val >= 128 THEN DecodeShort(s, s.val) ELSE DecodeLong(s, s.val)

Dispatch(s) == IF s.exc # "none" THEN s ELSE IF s.val = 190 /\ version >= 5 THEN DecodeExtended(s) ELSE IF s.val >= 192 THEN (IF s.val < 224 THEN DecodeVar2OP(s, s.val % 32) ELSE DecodeVarVar(s, s.val % 32)) ELSE IF s.val >= 128 THEN DecodeShort(s, s.val) ELSE DecodeLong(s, s.val)

DecodeInstruction(s) == Dispatch(FetchByte([s EXCEPT !.name = "", !.operands = <<>>, !.store_var = NoStore, !.branch = NoBranch]))

(***************************************************************************)
(* step: one instruction                                                   *)
(***************************************************************************)
Signed(val) == IF val >= 32768 THEN val - 65536 ELSE val

Abs(n) == IF n < 0 THEN 0 - n ELSE n

\* int(a / b): the quotient rounded toward zero.
TruncDiv(a, b) == IF (a < 0) = (b < 0) THEN Abs(a) \div Abs(b) ELSE 0 - (Abs(a) \div Abs(b))

DoBranchAlways(s, condition) == IF s.exc # "none" THEN s ELSE IF s.branch.offset = 0 THEN Return(s, 0) ELSE IF s.branch.offset = 1 THEN Return(s, 1) ELSE [s EXCEPT !.pc = @ + s.branch.offset - 2]

DoBranch(s, condition) == IF s.exc # "none" THEN s ELSE IF condition = s.branch.on_true THEN (IF s.branch.offset = 0 THEN Return(s, 0) ELSE IF s.branch.offset = 1 THEN Return(s, 1) ELSE [s EXCEPT !.pc = @ + s.branch.offset - 2]) ELSE s

ArithAdd(s, a, b) == Signed(a) + Signed(b)

\* The result of add, sub or mul on the signed values a and b.
Arith(s, a, b) == IF s.name = "add" THEN Signed(a) + Signed(b) ELSE IF s.name = "sub" THEN Signed(a) - Signed(b) ELSE Signed(a) * Signed(b)

AddSubMul(s) == IF Len(s.ops) < 2 THEN Raise(s, "IndexError") ELSE SetVariable(s, s.store_var, Arith(s, s.ops[1], s.ops[2]) % 65536)

Quotient(s, a, b) == IF s.name = "div" THEN TruncDiv(a, b) ELSE a - TruncDiv(a, b) * b

DivModQuiet(s) == IF Len(s.ops) < 2 THEN Raise(s, "IndexError") ELSE IF s.ops[2] = 0 THEN SetVariable(s, s.store_var, 0) ELSE SetVariable(s, s.store_var, Quotient(s, Signed(s.ops[1]), Signed(s.ops[2])) % 65536)

DivMod(s) == IF Len(s.ops) < 2 THEN Raise(s, "IndexError") ELSE IF s.ops[2] = 0 THEN Raise(s, "ZMachineError") ELSE SetVariable(s, s.store_var, Quotient(s, Signed(s.ops[1]), Signed(s.ops[2])) % 65536)

\* rng.randint(1, n): a value in 1..n that is a function of the generator's
\* state, which is how it was seeded and the draws made since.
RandInt(state, n) == 1 + ((state.seed + 3 * Len(state.draws) + (IF state.seeded THEN 0 ELSE 1) + (IF state.draws = <<>> THEN 0 ELSE state.draws[Len(state.draws)])) % n)

Draw(s, n) == SetVariable([s EXCEPT !.rng = [@ EXCEPT !.draws = Append(@, n)]], s.store_var, RandInt(s.rng, n))

SeedKept(s, n) == IF n <= 0 THEN SetVariable(s, s.store_var, 0) ELSE Draw(s, n)

Seed(s, n) == IF n <= 0 THEN SetVariable([s EXCEPT !.rng = IF n < 0 THEN Seeded(Abs(n)) ELSE Unseeded(s.entropy)], s.store_var, 0) ELSE Draw(s, n)

Random(s) == IF Len(s.ops) < 1 THEN Raise(s, "IndexError") ELSE Seed(s, Signed(s.ops[1]))

\* sread / aread: the closure handle_input keeps text_buffer, parse_buffer
\* and store_var.
ReadLine(s) == IF Len(s.ops) < 1 THEN Raise([s EXCEPT !.waiting = TRUE], "IndexError") ELSE [s EXCEPT !.waiting = TRUE, !.callback = [kind |-> "line", text_buffer |-> s.ops[1], parse_buffer |-> IF Len(s.ops) > 1 THEN s.ops[2] ELSE 0, store_var |-> s.store_var], !.cont = FALSE]

\* read_char: the closure handle_char keeps store_var.
ReadChar(s) == [s EXCEPT !.waiting = TRUE, !.callback = [kind |-> "char", text_buffer |-> 0, parse_buffer |-> 0, store_var |-> s.store_var], !.cont = FALSE]

CallArgs(s) == IF Len(s.ops) < 1 THEN Raise(s, "IndexError") ELSE CallRoutine(s, s.ops[1], SubSeq(s.ops, 2, Len(s.ops)), s.store_var)

PoppedReturn(s) == IF s.exc # "none" THEN s ELSE Return(s, s.val)

PoppedStore(s, var_num) == IF s.exc # "none" THEN s ELSE SetVariable(s, var_num, s.val)

(***************************************************************************)
(* Output: print_text, print_num, print_char, restart.  A text is the      *)
(* sequence of its character codes.  The field printed keeps, for the      *)
(* claims, every text handed to print_text during the operation.           *)
(***************************************************************************)
PrintText(s, text) == IF s.exc # "none" THEN s ELSE [s EXCEPT !.out = @ \o text, !.printed = @ \o text]

RECURSIVE DecimalText(_)
DecimalText(n) == IF n < 10 THEN <<48 + n>> ELSE DecimalText(n \div 10) \o <<48 + (n % 10)>>

NumText(num) == IF num > 32767 THEN <<45>> \o DecimalText(65536 - num) ELSE DecimalText(num)

PrintNum(s, num) == PrintText(s, NumText(num))

PrintChar(s, char) == PrintText(s, <<char>>)

\* get_output without the clearing of the buffer.
GetOutputKept(s) == [text |-> s.out, vm |-> s]

\* get_output: the text returned and the machine it leaves.
GetOutput(s) == [text |-> s.out, vm |-> [s EXCEPT !.out = <<>>]]

\* restart(), for a machine constructed from original_data.
Restart(s, original_data) == IF s.exc # "none" THEN s ELSE [NewLocals(s, FreshRef(SnapRefs), ZeroLocals) EXCEPT !.mem = original_data, !.pc = Header.initial_pc, !.stack = <<>>, !.call_stack = <<>>, !.out = <<>>, !.running = FALSE, !.finished = FALSE, !.waiting = FALSE]

\* load: the variable is read through get_variable and, for variable 0 with
\* a stack that is not empty afterwards, replaced by the top of the stack.
LoadPeek(s, var_num) == IF s.exc # "none" THEN s ELSE SetVariable(s, s.store_var, IF var_num = 0 /\ s.stack # <<>> THEN s.stack[Len(s.stack)] ELSE s.val)

Load(s) == LoadPeek(GetVariable(s, s.operands[1].n), s.operands[1].n)

\* inc_chk (d = 1) and dec_chk (d = -1): val is the signed value plus d, the
\* variable is set to val in 16 bits, and val itself is compared.
ChkCounted(s, var_num, d) == IF s.exc # "none" THEN s ELSE SetVariable([s EXCEPT !.val = Signed(s.val) + d], var_num, (Signed(s.val) + d) % 65536)

ChkBranch(s, d) == IF s.exc # "none" THEN s ELSE IF Len(s.ops) < 2 THEN Raise(s, "IndexError") ELSE DoBranch(s, IF d > 0 THEN s.val > Signed(s.ops[2]) ELSE s.val < Signed(s.ops[2]))

IncDecChk(s, d) == IF Len(s.operands) < 1 THEN Raise(s, "IndexError") ELSE ChkBranch(ChkCounted(GetVariable(s, s.operands[1].n), s.operands[1].n, d), d)

\* check_arg_count compares with the num_locals of the newest frame.
CheckArgCount(s) == IF s.call_stack = <<>> THEN DoBranch(s, FALSE) ELSE IF Len(s.ops) < 1 THEN Raise(s, "IndexError") ELSE DoBranch(s, s.ops[1] <= s.call_stack[Len(s.call_stack)].num_locals)

\* save and restore set the store variable; set_variable compares it with
\* 16, which raises TypeError when the instruction has none.
SaveRestore(s, value) == IF s.store_var = NoStore THEN Raise(s, "TypeError") ELSE SetVariable(s, s.store_var, value)

Execute(s) == IF s.exc # "none" THEN s ELSE CASE s.name = "rtrue" -> Return(s, 1) [] s.name = "rfalse" -> Return(s, 0) [] s.name = "ret_popped" -> PoppedReturn(Pop(s)) [] s.name = "pop" -> Pop(s) [] s.name = "quit" -> [s EXCEPT !.finished = TRUE, !.running = FALSE] [] s.name = "ret" -> Return(s, s.ops[1]) [] s.name = "call_1s" -> CallRoutine(s, s.ops[1], <<>>, s.store_var) [] s.name = "store" -> SetVariable(s, s.operands[1].n, s.ops[2]) [] s.name \in {"call", "call_vs"} -> CallArgs(s) [] s.name = "storew" -> (IF Len(s.ops) < 3 THEN Raise(s, "IndexError") ELSE WriteWord(s, s.ops[1] + 2 * s.ops[2], s.ops[3])) [] s.name = "storeb" -> (IF Len(s.ops) < 3 THEN Raise(s, "IndexError") ELSE WriteByte(s, s.ops[1] + s.ops[2], s.ops[3])) [] s.name \in {"sread", "aread", "read"} -> ReadLine(s) [] s.name = "push" -> (IF Len(s.ops) < 1 THEN Raise(s, "IndexError") ELSE Push(s, s.ops[1])) [] s.name = "pull" -> (IF Len(s.operands) < 1 THEN Raise(s, "IndexError") ELSE PoppedStore(Pop(s), s.operands[1].n)) [] s.name = "read_char" -> ReadChar(s) [] s.name = "jz" -> DoBranch(s, s.ops[1] = 0) [] s.name \in {"add", "sub", "mul"} -> AddSubMul(s) [] s.name \in {"div", "mod"} -> DivMod(s) [] s.name = "random" -> Random(s) [] s.name = "call_1n" -> CallRoutine(s, s.ops[1], <<>>, NoStore) [] s.name = "call_vn" -> CallArgs([s EXCEPT !.store_var = NoStore]) [] s.name = "not" -> (IF Len(s.ops) < 1 THEN Raise(s, "IndexError") ELSE SetVariable(s, s.store_var, 65535 - s.ops[1])) [] s.name = "new_line" -> PrintText(s, <<10>>) [] s.name = "print_char" -> (IF Len(s.ops) < 1 THEN Raise(s, "IndexError") ELSE PrintChar(s, s.ops[1])) [] s.name = "print_num" -> (IF Len(s.ops) < 1 THEN Raise(s, "IndexError") ELSE PrintNum(s, s.ops[1])) [] s.name = "load" -> Load(s) [] s.name = "inc_chk" -> IncDecChk(s, 1) [] s.name = "dec_chk" -> IncDecChk(s, 0 - 1) [] s.name = "check_arg_count" -> CheckArgCount(s) [] s.name = "save" -> SaveRestore(s, 1) [] s.name = "restore" -> SaveRestore(s, 0) [] OTHER -> s

Operands(s) == IF s.exc # "none" THEN s ELSE EvalOperands([s EXCEPT !.ops = <<>>], s.operands)

\* The names of the instructions executed by the operation in progress.
Traced(s) == IF s.exc # "none" THEN s ELSE [s EXCEPT !.trace = Append(@, s.name)]

StepWhileWaiting(s) == IF s.exc # "none" THEN s ELSE IF s.finished THEN [s EXCEPT !.cont = FALSE] ELSE Execute(Traced(Operands(DecodeInstruction([s EXCEPT !.count = @ + 1, !.cont = TRUE]))))

Step(s) == IF s.exc # "none" THEN s ELSE IF s.finished \/ s.waiting THEN [s EXCEPT !.cont = FALSE] ELSE Execute(Traced(Operands(DecodeInstruction([s EXCEPT !.count = @ + 1, !.cont = TRUE]))))

(***************************************************************************)
(* run: the loop of at most max_steps instructions                         *)
(***************************************************************************)
RunEndKeepRunning(s) == s

RunEnd(s) == IF s.exc # "none" THEN s ELSE [s EXCEPT !.running = FALSE]

RECURSIVE RunLoop(_, _, _)
RunNext(s, steps, max_steps) == IF s.exc # "none" THEN s ELSE IF ~s.cont THEN RunEnd(s) ELSE RunLoop(s, steps + 1, max_steps)

RunLoop(s, steps, max_steps) == IF s.exc # "none" THEN s ELSE IF steps < max_steps THEN RunNext(Step(s), steps, max_steps) ELSE RunEnd(s)

Run(s, max_steps) == RunLoop([s EXCEPT !.running = TRUE], 0, max_steps)

(***************************************************************************)
(* Input: _process_input, _tokenise, _lookup_word, _encode_word            *)
(***************************************************************************)
Lower(c) == IF c >= 65 /\ c <= 90 THEN c + 32 ELSE c

LowerText(text) == [i \in 1..Len(text) |-> Lower(text[i])]

Truncate(seq, n) == SubSeq(seq, 1, IF Len(seq) < n THEN Len(seq) ELSE n)

RECURSIVE WriteBytes(_, _, _)
WriteBytes(s, addr, bytes) == IF s.exc # "none" \/ bytes = <<>> THEN s ELSE WriteBytes(WriteByte(s, addr, Head(bytes)), addr + 1, Tail(bytes))

A0 == 97..122

A1 == 65..90

\* The alphabet a2 of _encode_word, as character codes.
A2 == <<32, 10, 48, 49, 50, 51, 52, 53, 54, 55, 56, 57, 46, 44, 33, 63, 95, 35, 39, 34, 47, 92, 45, 58, 40, 41>>

A2Index(c) == CHOOSE i \in 1..Len(A2) : A2[i] = c

ZCharsOf(c) == IF c \in A0 THEN <<c - 97 + 6>> ELSE IF c \in A1 THEN <<4, c - 65 + 6>> ELSE IF \E i \in 1..Len(A2) : A2[i] = c THEN <<5, A2Index(c) - 1 + 6>> ELSE <<>>

RECURSIVE ZChars(_)
ZChars(word) == IF word = <<>> THEN <<>> ELSE ZCharsOf(Head(word)) \o ZChars(Tail(word))

MaxChars == IF version <= 3 THEN 6 ELSE 9

NumWords == IF version <= 3 THEN 2 ELSE 3

\* Z-character k of the list, 5 where the list has ended.
ZAt(zchars, k) == IF k <= Len(zchars) THEN zchars[k] ELSE 5

\* The padding done with Z-character 0, the space.
PadZero(zchars) == IF Len(zchars) >= MaxChars THEN zchars ELSE zchars \o [i \in 1..(MaxChars - Len(zchars)) |-> 0]

Pad(zchars) == IF Len(zchars) >= MaxChars THEN zchars ELSE zchars \o [i \in 1..(MaxChars - Len(zchars)) |-> 5]

WordVal(zchars, i) == ZAt(zchars, 3 * i + 1) * 1024 + ZAt(zchars, 3 * i + 2) * 32 + ZAt(zchars, 3 * i + 3) + (IF i = NumWords - 1 THEN 32768 ELSE 0)

Pack(zchars) == [k \in 1..(2 * NumWords) |-> IF k % 2 = 1 THEN Hi(WordVal(zchars, (k - 1) \div 2)) ELSE Lo(WordVal(zchars, (k - 1) \div 2))]

EncodeWord(word) == Pack(Pad(ZChars(Truncate(LowerText(word), MaxChars))))

(***************************************************************************)
(* decode_zstring, for the versions 3 and later of the images: the shifts  *)
(* 4 and 5 act on the next Z-character only and lock_alphabet stays 0.     *)
(* A text is the sequence of its character codes.                          *)
(***************************************************************************)
ZState == [result |-> <<>>, alphabet |-> 0, abbrev_table |-> 0, zscii_state |-> 0, zscii_high |-> 0, exc |-> "none"]

ZText(text, next, exc) == [text |-> text, next |-> next, exc |-> exc]

AlphabetChar(alphabet, idx) == IF alphabet = 0 THEN <<97 + idx>> ELSE IF alphabet = 1 THEN <<65 + idx>> ELSE <<A2[idx + 1]>>

\* The character of a regular Z-character, taken from A0 whatever the shift.
RegularUnshifted(d, c) == [d EXCEPT !.result = @ \o AlphabetChar(0, c - 6), !.alphabet = 0]

Regular(d, c) == [d EXCEPT !.result = @ \o AlphabetChar(d.alphabet, c - 6), !.alphabet = 0]

Escape(d, c) == [d EXCEPT !.result = IF d.zscii_high * 32 + c > 0 THEN Append(@, d.zscii_high * 32 + c) ELSE @, !.zscii_state = 0, !.alphabet = 0]

Expanded(d, abbr) == [d EXCEPT !.result = @ \o abbr.text, !.abbrev_table = 0, !.alphabet = 0, !.exc = abbr.exc]

RECURSIVE DecodeFrom(_, _, _)
Abbreviation(m, abbr_addr) == IF abbr_addr + 1 >= Len(m) THEN ZText(<<>>, 0, "IndexError") ELSE DecodeFrom(m, ReadWord(m, abbr_addr) * 2, ZState)

ZChar(m, d, c) == IF d.exc # "none" THEN d ELSE IF d.zscii_state = 1 THEN [d EXCEPT !.zscii_high = c, !.zscii_state = 2] ELSE IF d.zscii_state = 2 THEN Escape(d, c) ELSE IF d.abbrev_table > 0 THEN (IF Header.abbreviations # 0 THEN Expanded(d, Abbreviation(m, Header.abbreviations + 2 * (32 * (d.abbrev_table - 1) + c))) ELSE [d EXCEPT !.abbrev_table = 0, !.alphabet = 0]) ELSE IF c = 0 THEN [d EXCEPT !.result = Append(@, 32), !.alphabet = 0] ELSE IF c \in {1, 2, 3} THEN [d EXCEPT !.abbrev_table = c] ELSE IF c = 4 THEN [d EXCEPT !.alphabet = 1] ELSE IF c = 5 THEN [d EXCEPT !.alphabet = 2] ELSE IF c = 6 /\ d.alphabet = 2 THEN [d EXCEPT !.zscii_state = 1] ELSE Regular(d, c)

ZWord(m, d, word) == ZChar(m, ZChar(m, ZChar(m, d, (word \div 1024) % 32), (word \div 32) % 32), word % 32)

DecodeNext(m, addr, d, word) == IF d.exc # "none" THEN ZText(d.result, addr, d.exc) ELSE IF word >= 32768 THEN ZText(d.result, addr, "none") ELSE DecodeFrom(m, addr, d)

DecodeFrom(m, addr, d) == IF addr < 0 \/ addr + 1 >= Len(m) THEN ZText(d.result, addr, "IndexError") ELSE DecodeNext(m, addr + 2, ZWord(m, d, ReadWord(m, addr)), ReadWord(m, addr))

DecodeZString(m, addr) == DecodeFrom(m, addr, ZState)

RECURSIVE Compare(_, _, _, _)
Compare(m, encoded, entry_addr, i) == IF i > Len(encoded) THEN 0 ELSE IF encoded[i] < ReadByte(m, entry_addr + i - 1) THEN 0 - 1 ELSE IF encoded[i] > ReadByte(m, entry_addr + i - 1) THEN 1 ELSE Compare(m, encoded, entry_addr, i + 1)

RECURSIVE BinarySearch(_, _, _, _, _, _)
SearchAt(m, encoded, dict_start, entry_len, lo, hi, mid, cmp) == IF cmp = 0 THEN dict_start + mid * entry_len ELSE IF cmp < 0 THEN BinarySearch(m, encoded, dict_start, entry_len, lo, mid - 1) ELSE BinarySearch(m, encoded, dict_start, entry_len, mid + 1, hi)

BinarySearch(m, encoded, dict_start, entry_len, lo, hi) == IF lo > hi THEN 0 ELSE SearchAt(m, encoded, dict_start, entry_len, lo, hi, (lo + hi) \div 2, Compare(m, encoded, dict_start + ((lo + hi) \div 2) * entry_len, 1))

\* The search that leaves the first entry out.
LookupAfterFirst(m, word, dict_start, entry_len, num_entries) == BinarySearch(m, EncodeWord(word), dict_start, entry_len, 1, num_entries - 1)

LookupWord(m, word, dict_start, entry_len, num_entries) == BinarySearch(m, EncodeWord(word), dict_start, entry_len, 0, num_entries - 1)



\* The dictionary header at header.dictionary.
DictInfoAt(m, dict_addr, num_seps) == [separators |-> {ReadByte(m, dict_addr + 1 + i) : i \in 0..(num_seps - 1)}, entry_len |-> ReadByte(m, dict_addr + 1 + num_seps), num_entries |-> Abs(Signed(ReadWord(m, dict_addr + 2 + num_seps))), start |-> dict_addr + 4 + num_seps]

DictInfo(m) == DictInfoAt(m, Header.dictionary, ReadByte(m, Header.dictionary))

\* The address of the first zero byte at or after addr, -1 when the search
\* runs off the end of memory.
RECURSIVE ZeroAt(_, _)
ZeroAt(m, addr) == IF addr >= Len(m) THEN 0 - 1 ELSE IF ReadByte(m, addr) = 0 THEN addr ELSE ZeroAt(m, addr + 1)

\* The text the text buffer holds: bytes first..last.
BytesAt(m, first, last) == [i \in 1..(last - first + 1) |-> ReadByte(m, first + i - 1)]

BufferText(m, text_buffer) == IF version <= 4 THEN BytesAt(m, text_buffer + 1, ZeroAt(m, text_buffer + 1) - 1) ELSE BytesAt(m, text_buffer + 2, text_buffer + 1 + ReadByte(m, text_buffer + 1))

BufferReadable(m, text_buffer) == IF version <= 4 THEN ZeroAt(m, text_buffer + 1) >= 0 ELSE text_buffer + 1 + ReadByte(m, text_buffer + 1) < Len(m)

Flush(text, i, word_start, words) == IF i > word_start THEN Append(words, [word |-> SubSeq(text, word_start + 1, i), pos |-> word_start]) ELSE words

\* The tokenising loop; i and word_start count from 0 as in the source.
RECURSIVE SplitWords(_, _, _, _, _)
SplitWords(text, separators, i, word_start, words) == IF i >= Len(text) THEN (IF word_start < Len(text) THEN Append(words, [word |-> SubSeq(text, word_start + 1, Len(text)), pos |-> word_start]) ELSE words) ELSE IF text[i + 1] = 32 THEN SplitWords(text, separators, i + 1, i + 1, Flush(text, i, word_start, words)) ELSE IF text[i + 1] \in separators THEN SplitWords(text, separators, i + 1, i + 1, Append(Flush(text, i, word_start, words), [word |-> <<text[i + 1]>>, pos |-> i])) ELSE SplitWords(text, separators, i + 1, word_start, words)

WriteEntry(s, parse_addr, w, d) == IF s.exc # "none" THEN s ELSE WriteByte(WriteByte(WriteWord(s, parse_addr, LookupWord(s.mem, w.word, d.start, d.entry_len, d.num_entries)), parse_addr + 2, Len(w.word)), parse_addr + 3, w.pos + (IF version <= 4 THEN 1 ELSE 2))

RECURSIVE WriteEntries(_, _, _, _)
WriteEntries(s, parse_addr, words, d) == IF s.exc # "none" \/ words = <<>> THEN s ELSE WriteEntries(WriteEntry(s, parse_addr, Head(words), d), parse_addr + 4, Tail(words), d)

\* The parse buffer given an entry for every word.
WriteParseAll(s, parse_buffer, words, max_words, d) == WriteEntries(WriteByte(s, parse_buffer + 1, IF Len(words) < max_words THEN Len(words) ELSE max_words), parse_buffer + 2, words, d)

WriteParse(s, parse_buffer, words, max_words, d) == WriteEntries(WriteByte(s, parse_buffer + 1, IF Len(words) < max_words THEN Len(words) ELSE max_words), parse_buffer + 2, Truncate(words, max_words), d)

Tokenise(s, text_buffer, parse_buffer) == IF s.exc # "none" THEN s ELSE IF ~BufferReadable(s.mem, text_buffer) THEN Raise(s, "IndexError") ELSE WriteParse(s, parse_buffer, SplitWords(BufferText(s.mem, text_buffer), DictInfo(s.mem).separators, 0, 0, <<>>), ReadByte(s.mem, parse_buffer), DictInfo(s.mem))

StoreText(s, text, text_buffer) == IF version <= 4 THEN WriteByte(WriteBytes(s, text_buffer + 1, text), text_buffer + 1 + Len(text), 0) ELSE WriteBytes(WriteByte(s, text_buffer + 1, Len(text)), text_buffer + 2, text)

ProcessTextOnly(s, text, text_buffer, parse_buffer) == StoreText(s, text, text_buffer)

ProcessText(s, text, text_buffer, parse_buffer) == IF parse_buffer # 0 THEN Tokenise(StoreText(s, text, text_buffer), text_buffer, parse_buffer) ELSE StoreText(s, text, text_buffer)

ProcessInput(s, text, text_buffer, parse_buffer) == IF s.exc # "none" THEN s ELSE ProcessText(s, Truncate(LowerText(text), ReadByte(s.mem, text_buffer)), text_buffer, parse_buffer)

\* The last two statements of both closures.
ClearWaiting(s) == IF s.exc # "none" THEN s ELSE [s EXCEPT !.waiting = FALSE, !.callback = NoCallback]

StoreTerminator(s, store_var) == IF s.exc # "none" THEN s ELSE IF store_var # NoStore /\ version >= 5 THEN SetVariable(s, store_var, 13) ELSE s

handle_input(s, cb, input_text) == ClearWaiting(StoreTerminator(ProcessInput(s, input_text, cb.text_buffer, cb.parse_buffer), cb.store_var))

handle_char(s, cb, input_text) == ClearWaiting(SetVariable(s, cb.store_var, IF input_text = <<>> THEN 13 ELSE input_text[1]))

SendInput(s, text) == IF s.waiting /\ s.callback.kind # "none" THEN (IF s.callback.kind = "line" THEN handle_input(s, s.callback, text) ELSE handle_char(s, s.callback, text)) ELSE s

(***************************************************************************)
(* Snapshots: save_state and restore_state                                 *)
(***************************************************************************)
\* call_stack=[copy.copy(f) for f in self.call_stack]: each copied frame
\* names the same locals list as the frame it was copied from.
SaveStateNoLocals(s) == [taken |-> TRUE, memory |-> SubSeq(s.mem, 1, Header.static_memory), pc |-> s.pc, stack |-> s.stack, call_stack |-> s.call_stack, locals |-> ZeroLocals, random_state |-> s.rng]

SaveState(s) == [taken |-> TRUE, memory |-> SubSeq(s.mem, 1, Header.static_memory), pc |-> s.pc, stack |-> s.stack, call_stack |-> s.call_stack, locals |-> s.heap[s.locals], random_state |-> s.rng]

RestoreMemory(m, saved) == [i \in 1..Len(m) |-> IF i <= Len(saved) THEN saved[i] ELSE m[i]]

RestoreStateKeepWaiting(s, state) == [NewLocals(s, FreshRef(FrameRefs(state.call_stack)), state.locals) EXCEPT !.mem = RestoreMemory(@, state.memory), !.pc = state.pc, !.stack = state.stack, !.call_stack = state.call_stack, !.rng = state.random_state]

\* restore_state that also clears the finished flag.
RestoreStateUnfinished(s, state) == [RestoreStateKeepWaiting(s, state) EXCEPT !.waiting = FALSE, !.callback = NoCallback, !.finished = FALSE]

RestoreState(s, state) == [NewLocals(s, FreshRef(FrameRefs(state.call_stack)), state.locals) EXCEPT !.mem = RestoreMemory(@, state.memory), !.pc = state.pc, !.stack = state.stack, !.call_stack = state.call_stack, !.rng = state.random_state, !.waiting = FALSE, !.callback = NoCallback]

(***************************************************************************)
(* SpecMem: the host calls write_byte and write_word directly.             *)
(***************************************************************************)
MemAddrs == (Header.static_memory - MemWindow)..(Header.static_memory + MemWindow - 1)

MemValues == {0, 1, 258, 65535}

DoWriteByte(addr, value) == LET r == WriteByte([mem |-> memory, exc |-> "none"], addr, value) IN /\ memory' = r.mem /\ raised' = r.exc /\ lastOp' = "write_byte" /\ lastArg' = <<addr, value>> /\ UNCHANGED <<version, vmVars, hostVars, preState>>

DoWriteWord(addr, value) == LET r == WriteWord([mem |-> memory, exc |-> "none"], addr, value) IN /\ memory' = r.mem /\ raised' = r.exc /\ lastOp' = "write_word" /\ lastArg' = <<addr, value>> /\ UNCHANGED <<version, vmVars, hostVars, preState>>

InitMem == \E v \in Versions : InitVM(v) /\ InitHost

NextMem ==
    \/ \E addr \in MemAddrs, value \in MemValues : DoWriteByte(addr, value)
    \/ \E addr \in MemAddrs, value \in MemValues : DoWriteWord(addr, value)

SpecMem == InitMem /\ [][NextMem]_vars

(***************************************************************************)
(* SpecObj: the host calls insert_object and remove_object directly.       *)
(***************************************************************************)
ObjNums == 0..NumObjects

\* A call that never returns leaves the program stuck: nothing follows it.
DoInsertObject(obj, dest) == LET r == InsertObject([mem |-> memory, exc |-> "none"], obj, dest) IN /\ raised # "hang" /\ memory' = r.mem /\ raised' = r.exc /\ lastOp' = "insert_object" /\ lastArg' = <<obj, dest>> /\ UNCHANGED <<version, vmVars, hostVars, preState>>

DoRemoveObject(obj) == LET r == RemoveObject([mem |-> memory, exc |-> "none"], obj) IN /\ raised # "hang" /\ memory' = r.mem /\ raised' = r.exc /\ lastOp' = "remove_object" /\ lastArg' = <<obj, GetObjectParent(memory, obj)>> /\ UNCHANGED <<version, vmVars, hostVars, preState>>

InitObj == \E v \in Versions : InitVM(v) /\ InitHost

NextObj ==
    \/ \E obj \in ObjNums, dest \in ObjNums : DoInsertObject(obj, dest)
    \/ \E o \in ObjNums : DoRemoveObject(o)

SpecObj == InitObj /\ [][NextObj]_vars

(***************************************************************************)
(* Claims about the object tree (SpecObj)                                  *)
(***************************************************************************)
\* The sibling chain that starts at `first`, cut after `fuel` objects.
RECURSIVE ChildChain(_, _, _)
ChildChain(m, first, fuel) == IF first = 0 \/ fuel = 0 THEN <<>> ELSE <<first>> \o ChildChain(m, GetObjectSibling(m, first), fuel - 1)

Occurrences(seq, x) == Cardinality({i \in 1..Len(seq) : seq[i] = x})

ChainOf(m, p) == ChildChain(m, GetObjectChild(m, p), NumObjects + 1)

\* Following parent links from o for at most `fuel` steps reaches 0.
RECURSIVE ReachesRoot(_, _, _)
ReachesRoot(m, o, fuel) == IF o = 0 THEN TRUE ELSE IF fuel = 0 THEN FALSE ELSE ReachesRoot(m, GetObjectParent(m, o), fuel - 1)

\* C5: after any sequence of insert_object and remove_object calls, every
\* object with a parent p # 0 occurs exactly once in the sibling chain that
\* starts at child(p), and that chain holds only objects whose parent is p.
C5_ChildChainsExact == \A o \in 1..NumObjects : LET p == GetObjectParent(memory, o) IN /\ (p # 0 => Occurrences(ChainOf(memory, p), o) = 1) /\ \A i \in 1..Len(ChainOf(memory, o)) : GetObjectParent(memory, ChainOf(memory, o)[i]) = o

\* C6: the parent links always form a forest: following parent links from
\* any object reaches 0, whatever obj and dest the calls were given.
C6_ParentForest == \A o \in 1..NumObjects : ReachesRoot(memory, o, NumObjects)

(***************************************************************************)
(* Claims about memory writes (SpecMem)                                    *)
(***************************************************************************)
\* C7: write_byte and write_word at an address >= the static memory boundary
\* raise an error and leave every byte of memory unchanged.
C7_StaticWriteRejected == [][(lastOp' \in {"write_byte", "write_word"} /\ lastArg'[1] >= Header.static_memory) => (raised' = "ZMachineError" /\ memory' = memory)]_vars

C7_Witness == lastOp = "write_word" /\ lastArg[1] >= Header.static_memory /\ lastArg[2] # 0 /\ raised = "ZMachineError" /\ memory # Image[version]

\* C8: static memory is read-only: after any sequence of write_byte and
\* write_word calls every byte at an address >= the static memory boundary
\* equals the byte of the loaded image.
C8_StaticReadOnly == \A a \in Header.static_memory..(MemLen - 1) : ReadByte(memory, a) = ReadByte(Image[version], a)

(***************************************************************************)
(* Spec: a host drives the machine through its public operations, as the    *)
(* walker does: run, step, send_input, save_state and restore_state.        *)
(***************************************************************************)
MaxInstr == 6

MaxSteps == 2

\* The values the operating system may supply when the generator is seeded
\* without a number.
MaxEntropy == 1

Entropy == 0..MaxEntropy

\* Input lines: "", "a", "A,b" and "a bb".
Texts == {<<>>, <<97>>, <<65, 44, 98>>, <<97, 32, 98, 98>>}

\* A call stack with each frame's locals list written out.
DeepFrames(frames, h) == [i \in 1..Len(frames) |-> [frames[i] EXCEPT !.locals = h[frames[i].locals]]]

\* What restore_state is to bring back, with every list written out.
View(m, p, st, frames, loc, h, r) == [memory |-> SubSeq(m, 1, Header.static_memory), pc |-> p, stack |-> st, call_stack |-> DeepFrames(frames, h), locals |-> h[loc], random_state |-> r]

VMView == View(memory, pc, stack, call_stack, locals, heap, rng)

\* The list objects some live object names once the operation has ended.
LiveRefs(s, state) == {s.locals} \cup FrameRefs(s.call_stack) \cup (IF state.taken THEN FrameRefs(state.call_stack) ELSE {})

\* The operation has ended in s; state is the snapshot the host now holds.
Commit(s, state) == /\ memory' = s.mem /\ pc' = s.pc /\ stack' = s.stack /\ call_stack' = s.call_stack /\ locals' = s.locals /\ heap' = [r \in Refs |-> IF r \in LiveRefs(s, state) THEN s.heap[r] ELSE ZeroLocals] /\ rng' = s.rng /\ output_buffer' = s.out /\ running' = s.running /\ finished' = s.finished /\ waiting_for_input' = s.waiting /\ pending_input_callback' = s.callback /\ instruction_count' = s.count /\ raised' = s.exc /\ snap' = state /\ UNCHANGED version

\* The operation before the one in progress, and whether the machine was
\* waiting when the one in progress began.
Before == [op |-> lastOp, waiting |-> waiting_for_input]

DoRun(max_steps, e) == /\ instruction_count + max_steps <= MaxInstr /\ Commit(Run(SelfWith(e), max_steps), snap) /\ lastOp' = "run" /\ lastArg' = [trace |-> Run(SelfWith(e), max_steps).trace, cont |-> Run(SelfWith(e), max_steps).cont, max_steps |-> max_steps] /\ preState' = Before /\ UNCHANGED snapTaken

DoStep(e) == /\ instruction_count < MaxInstr /\ Commit(Step(SelfWith(e)), snap) /\ lastOp' = "step" /\ lastArg' = [trace |-> Step(SelfWith(e)).trace, cont |-> Step(SelfWith(e)).cont] /\ preState' = Before /\ UNCHANGED snapTaken

DoSendInput(text) == /\ Commit(SendInput(Self, text), snap) /\ lastOp' = "send_input" /\ lastArg' = text /\ preState' = Before /\ UNCHANGED snapTaken

DoSaveState == /\ Commit(Self, SaveState(Self)) /\ snapTaken' = [view |-> VMView, waiting |-> waiting_for_input, callback |-> pending_input_callback] /\ lastOp' = "save_state" /\ lastArg' = <<>> /\ preState' = Before

DoRestoreState == /\ snap.taken /\ Commit(RestoreState(Self, snap), snap) /\ lastOp' = "restore_state" /\ lastArg' = <<>> /\ preState' = Before /\ UNCHANGED snapTaken

Init == \E v \in Versions : InitVM(v) /\ InitHost

\* The story of this specification executes no random instruction, so the
\* entropy is never read.
Next ==
    \/ \E max_steps \in 0..MaxSteps : DoRun(max_steps, 0)
    \/ DoStep(0)
    \/ \E text \in Texts : DoSendInput(text)
    \/ DoSaveState
    \/ DoRestoreState

Spec == Init /\ [][Next]_vars

(***************************************************************************)
(* Stories that exercise calls, branches, arithmetic and random            *)
(***************************************************************************)
\* The image m with the bytes placed at address addr.
Patch(m, addr, bytes) == [i \in 1..Len(m) |-> IF i > addr /\ i <= addr + Len(bytes) THEN bytes[i - addr] ELSE m[i]]

\* The default values of the locals of a routine header of versions 1 to 4:
\* local i defaults to 256 + i.
Defaults(k) == IF k = 0 THEN <<>> ELSE IF k = 1 THEN <<1, 1>> ELSE <<1, 1, 1, 2>>

\* Routine bodies: rtrue; push 9, rtrue; ret_popped; jz 0 ?rfalse;
\* jz 0 ?rtrue; ret 3; quit.
Bodies == {<<176>>, <<232, 127, 9, 176>>, <<184>>, <<144, 0, 192>>, <<144, 0, 193>>, <<155, 3>>, <<186>>}

RoutineOf(v, k, body) == <<k>> \o (IF v <= 4 THEN Defaults(k) ELSE <<>>) \o body

Routines(v) == {RoutineOf(v, k, body) : k \in 0..2, body \in Bodies}

\* The types byte of a variable-form call with m small-constant arguments.
CallTypes == <<63, 31, 23, 21>>

\* call (opcode 224) or call_vn (opcode 249) of the routine with the first
\* m of the arguments 7, 8, 9, followed by the bytes rest.
CallBytes(v, opcode, m, rest) == <<opcode, CallTypes[m + 1], Hi(RoutineAddr(v) \div PackFactor(v)), Lo(RoutineAddr(v) \div PackFactor(v))>> \o SubSeq(<<7, 8, 9>>, 1, m) \o rest

\* With or without push 5 first: a call storing in global 0, in the stack,
\* or nowhere; then quit.
CallMains(v) == {prefix \o call : prefix \in {<<>>, <<232, 127, 5>>}, call \in {CallBytes(v, 224, m, <<16, 186>>) : m \in 0..3} \cup {CallBytes(v, 224, 1, <<0, 186>>), CallBytes(v, 249, 1, <<186>>)}}

\* Branch fields: short and long, either polarity, offsets 0, 1, 3, 4, -2.
BranchFields == {<<192>>, <<193>>, <<195>>, <<64>>, <<65>>, <<67>>, <<128, 0>>, <<128, 1>>, <<128, 4>>, <<0, 4>>, <<191, 254>>, <<63, 254>>}

\* jz a with each branch field, then quit instructions.
JzMains == {<<144, a>> \o field \o <<186, 186, 186, 186>> : a \in {0, 1}, field \in BranchFields}

\* Returns outside any routine: rtrue; rfalse; ret 3; push 5, ret_popped.
ReturnMains == {<<176>>, <<177>>, <<155, 3>>, <<232, 127, 5, 184>>}

ArithValues == {0, 1, 7, 32767, 32768, 65533}

\* add, sub, mul, div, mod in variable form on two large constants, storing
\* in global 0, then quit.
ArithMains == {<<192 + opnum, 15, Hi(a), Lo(a), Hi(b), Lo(b), 16, 186>> : opnum \in 20..24, a \in ArithValues, b \in ArithValues}

\* random n, storing in the stack.
Rnd(n) == IF n < 256 THEN <<231, 127, n, 0>> ELSE <<231, 63, Hi(n), Lo(n), 0>>

\* Two or three random instructions, one of which may reseed, then quit.
RandomMains == {first \o Rnd(m) \o Rnd(3) \o <<186>> : first \in {<<>>, Rnd(0), Rnd(65533), Rnd(65534)}, m \in {2, 5}} \cup {Rnd(m) \o Rnd(n) \o Rnd(3) \o <<186>> : m \in {2, 5}, n \in {65533, 65534}}

\* A story is a routine, a main program and the entropy the generator is
\* constructed from, which only the stories with random read.
Programs(v) == [routine : Routines(v), main : CallMains(v), entropy : {0}] \cup [routine : {RoutineBytes(v)}, main : JzMains \cup ArithMains \cup ReturnMains, entropy : {0}] \cup [routine : {RoutineBytes(v)}, main : RandomMains, entropy : Entropy]

ProgImage(v, prog) == Patch(Patch(Image[v], RoutineAddr(v), prog.routine), InitialPC(v), prog.main)

InitProg == \E v \in Versions : \E prog \in Programs(v) : InitCPU(v, ProgImage(v, prog), prog.entropy) /\ InitHost

NextProg ==
    \/ \E max_steps \in 0..MaxSteps, e \in Entropy : DoRun(max_steps, e)
    \/ \E e \in Entropy : DoStep(e)
    \/ DoSendInput(<<97>>)

SpecProg == InitProg /\ [][NextProg]_vars

(***************************************************************************)
(* Instruction streams for the decoder                                     *)
(***************************************************************************)
\* First bytes: rtrue, save, restore, pop/catch, not/call_1n with a large
\* constant, a small constant and a variable, sread/aread, call, je in
\* variable form, je in long form, call_vs2, call_vn2.
DecodeOpcodes == {176, 181, 182, 185, 143, 159, 175, 228, 224, 193, 65, 236, 250}

\* Second bytes, read as a types byte, a store byte, a branch byte or an
\* operand according to the first.
TypeBytes == {0, 15, 21, 27, 47, 63, 76, 85, 127, 170, 191, 192, 228, 255}

StreamTail == <<17, 34, 51, 68, 85, 102, 119, 136, 153, 170, 187, 204, 221>>

Streams == {<<opcode, second>> \o StreamTail : opcode \in DecodeOpcodes, second \in TypeBytes}

InitDecode == \E v \in Versions : \E stream \in Streams : InitCPU(v, Patch(Image[v], InitialPC(v), stream), 0) /\ InitHost

\* What decode_instruction returns.
Fields(s) == [name |-> s.name, operands |-> s.operands, store_var |-> s.store_var, branch |-> s.branch]

DoDecode == /\ raised = "none" /\ Commit(DecodeInstruction(Self), snap) /\ lastOp' = "decode_instruction" /\ lastArg' = Fields(DecodeInstruction(Self)) /\ preState' = Before /\ UNCHANGED snapTaken

NextDecode == DoDecode

SpecDecode == InitDecode /\ [][NextDecode]_vars

(***************************************************************************)
(* Images with property tables                                             *)
(***************************************************************************)
\* A property entry: its number, its size in bytes and whether it is laid
\* out with two size bytes (versions >= 4 only).
Entry(num, size, two) == [num |-> num, size |-> size, two |-> two]

\* A property table: the number of words of the object's name and the
\* entries in the order they are laid out.
PropTable(name, entries) == [name |-> name, entries |-> entries]

\* The tables object 1 may have: none, one, two and more entries of every
\* size encoding, with and without a name.
Tables(v) == IF v <= 3 THEN {PropTable(0, <<>>), PropTable(1, <<Entry(5, 1, FALSE)>>), PropTable(0, <<Entry(7, 2, FALSE), Entry(3, 1, FALSE)>>), PropTable(1, <<Entry(31, 8, FALSE), Entry(12, 3, FALSE), Entry(1, 2, FALSE)>>)} ELSE {PropTable(0, <<>>), PropTable(1, <<Entry(6, 2, FALSE)>>), PropTable(0, <<Entry(9, 1, TRUE), Entry(2, 2, TRUE)>>), PropTable(1, <<Entry(63, 64, TRUE), Entry(20, 3, TRUE), Entry(4, 2, FALSE), Entry(1, 1, FALSE)>>)}

\* The data of an entry: byte i is 16 * num + i (mod 256).
DataBytes(e) == [i \in 1..e.size |-> (16 * e.num + i) % 256]

SizeBytes(v, e) == IF v <= 3 THEN <<32 * (e.size - 1) + e.num>> ELSE IF e.two THEN <<128 + e.num, 128 + (e.size % 64)>> ELSE <<(IF e.size = 2 THEN 64 ELSE 0) + e.num>>

RECURSIVE EntriesBytes(_, _)
EntriesBytes(v, entries) == IF entries = <<>> THEN <<0>> ELSE SizeBytes(v, entries[1]) \o DataBytes(entries[1]) \o EntriesBytes(v, SubSeq(entries, 2, Len(entries)))

TableBytes(v, t) == <<t.name>> \o Zeros(2 * t.name) \o EntriesBytes(v, t.entries)

\* The property defaults: the default of property p is 1000 + p.
RECURSIVE DefaultsBytes(_, _)
DefaultsBytes(p, last) == IF p > last THEN <<>> ELSE WordBytes(1000 + p) \o DefaultsBytes(p + 1, last)

\* The address of the table of object 1, placed after the image.
TableAddr(v) == Len(Image[v])

\* The image whose object 1 has the table t; the other objects keep the
\* empty table.
PropImage(v, t) == Patch(Patch(Image[v] \o TableBytes(v, t), TreeBase(v) + (IF v <= 3 THEN 7 ELSE 12), WordBytes(TableAddr(v))), ObjTableAddr, DefaultsBytes(1, IF v <= 3 THEN 31 ELSE 63))

InitProp == \E v \in Versions : \E t \in Tables(v) : InitCPU(v, PropImage(v, t), 0) /\ InitHost

\* Property numbers asked for: those of the tables and others.
PropNums == {0, 1, 2, 3, 4, 5, 6, 7, 9, 12, 20, 31, 63}

Asked(obj, prop, r, visited) == [obj |-> obj, prop |-> prop, result |-> r.val, visited |-> visited]

DoGetProperty(obj, prop) == /\ lastOp' = "get_property" /\ lastArg' = Asked(obj, prop, GetProperty(memory, obj, prop), <<>>) /\ raised' = GetProperty(memory, obj, prop).exc /\ preState' = Before /\ UNCHANGED <<version, memory, vmVars, hostVars>>

\* The iteration continues on obj from the last result.
Continuing(obj) == lastOp = "get_next_property" /\ raised = "none" /\ lastArg.obj = obj /\ lastArg.result # 0

Previous(obj) == IF Continuing(obj) THEN lastArg.result ELSE 0

Visited(obj, r) == (IF Continuing(obj) THEN lastArg.visited ELSE <<>>) \o (IF r.exc = "none" /\ r.val # 0 THEN <<r.val>> ELSE <<>>)

\* get_next_property(obj, 0) to start, get_next_property(obj, previous
\* result) to go on.
DoGetNextProperty(obj) == /\ lastOp' = "get_next_property" /\ lastArg' = Asked(obj, Previous(obj), GetNextProperty(memory, obj, Previous(obj)), Visited(obj, GetNextProperty(memory, obj, Previous(obj)))) /\ raised' = GetNextProperty(memory, obj, Previous(obj)).exc /\ preState' = Before /\ UNCHANGED <<version, memory, vmVars, hostVars>>

DoGetPropertyAddr(obj, prop) == /\ lastOp' = "get_property_addr" /\ lastArg' = Asked(obj, prop, GetPropertyAddr(memory, obj, prop), <<>>) /\ raised' = GetPropertyAddr(memory, obj, prop).exc /\ preState' = Before /\ UNCHANGED <<version, memory, vmVars, hostVars>>

\* get_property_len of the address get_property_addr has just returned;
\* visited keeps that address.
DoGetPropertyLen == /\ lastOp = "get_property_addr" /\ raised = "none" /\ lastOp' = "get_property_len" /\ lastArg' = Asked(lastArg.obj, lastArg.prop, GetPropertyLen(memory, lastArg.result), <<lastArg.result>>) /\ raised' = GetPropertyLen(memory, lastArg.result).exc /\ preState' = Before /\ UNCHANGED <<version, memory, vmVars, hostVars>>

NextProp ==
    \/ \E obj \in 0..NumObjects, prop \in PropNums : DoGetProperty(obj, prop)
    \/ \E obj \in 0..NumObjects : DoGetNextProperty(obj)
    \/ \E obj \in 0..NumObjects, prop \in PropNums : DoGetPropertyAddr(obj, prop)
    \/ DoGetPropertyLen

SpecProp == InitProp /\ [][NextProp]_vars

(***************************************************************************)
(* Images with dictionaries.  A dictionary is a choice of words of         *)
(* DictPool, kept in the order of the pool, which is the ascending order   *)
(* of the encoded entries.  Each word comes with the Z-characters a story  *)
(* compiler stores for it; an entry keeps the first 6 or 9 of them, padded *)
(* with 5, in 2 or 3 words with the end bit on the last, and a data byte.  *)
(***************************************************************************)
DictWord(word, z) == [word |-> word, z |-> z]

DictPool == <<DictWord(<<49>>, <<5, 9>>), DictWord(<<45>>, <<5, 28>>), DictWord(<<97>>, <<6>>), DictWord(<<97, 98, 99, 100, 101, 49>>, <<6, 7, 8, 9, 10, 5, 9>>), DictWord(<<97, 98, 99, 100, 101, 102, 103, 104, 49>>, <<6, 7, 8, 9, 10, 11, 12, 13, 5, 9>>), DictWord(<<98>>, <<7>>)>>

ZOr5(z, k) == IF k <= Len(z) THEN z[k] ELSE 5

EntryWord(v, z, i) == ZOr5(z, 3 * i + 1) * 1024 + ZOr5(z, 3 * i + 2) * 32 + ZOr5(z, 3 * i + 3) + (IF i = (IF v <= 3 THEN 1 ELSE 2) THEN 32768 ELSE 0)

EntryText(v, z) == IF v <= 3 THEN WordBytes(EntryWord(v, z, 0)) \o WordBytes(EntryWord(v, z, 1)) ELSE WordBytes(EntryWord(v, z, 0)) \o WordBytes(EntryWord(v, z, 1)) \o WordBytes(EntryWord(v, z, 2))

RECURSIVE Chosen(_, _, _)
Chosen(v, picks, k) == IF k > Len(DictPool) THEN <<>> ELSE (IF k \in picks THEN EntryText(v, DictPool[k].z) \o <<k>> ELSE <<>>) \o Chosen(v, picks, k + 1)

DictionaryBytes(v, picks) == <<1, 44, DictEntryLen(v)>> \o WordBytes(Cardinality(picks)) \o Chosen(v, picks, 1)

DictRoom(v) == 5 + Len(DictPool) * DictEntryLen(v)

DictImage(v, picks) == Patch(Image[v] \o [i \in 1..DictRoom(v) |-> 0], DictAddr(v), DictionaryBytes(v, picks))

InitDict == \E v \in Versions : \E picks \in SUBSET (1..Len(DictPool)) : InitCPU(v, DictImage(v, picks), 0) /\ InitHost

EntryAddr(m, i) == DictInfo(m).start + i * DictInfo(m).entry_len

\* Inputs of _encode_word and _lookup_word: the words of the pool, and words
\* in upper case, with characters of no alphabet, longer than an entry, of
\* many shifted characters, and the empty word.
OtherWords == {<<>>, <<65>>, <<99>>, <<64, 97>>, <<97, 64>>, <<49, 50>>, <<97, 98, 99, 100, 101>>, <<97, 98, 99, 100, 101, 102, 122, 122>>, <<65, 66, 67, 68, 69, 70, 71, 72, 73, 74>>, <<49, 50, 51, 52, 53, 54, 55>>, <<97, 98, 99, 100, 101, 102, 103, 104, 105, 49>>, <<46, 97, 32, 98>>}

InputWords == {DictPool[k].word : k \in 1..Len(DictPool)} \cup OtherWords

Recoded(entry, d) == [entry |-> entry, text |-> d.text, next |-> d.next, encoded |-> EncodeWord(d.text)]

\* decode_zstring on entry i of the dictionary, then _encode_word on its text.
DoRecode(i) == /\ i < DictInfo(memory).num_entries /\ lastOp' = "recode" /\ lastArg' = Recoded(EntryAddr(memory, i), DecodeZString(memory, EntryAddr(memory, i))) /\ raised' = DecodeZString(memory, EntryAddr(memory, i)).exc /\ preState' = Before /\ UNCHANGED <<version, memory, vmVars, hostVars>>

DoEncodeWord(word) == /\ lastOp' = "encode_word" /\ lastArg' = [word |-> word, result |-> EncodeWord(word)] /\ raised' = "none" /\ preState' = Before /\ UNCHANGED <<version, memory, vmVars, hostVars>>

DoLookupWord(word) == /\ lastOp' = "lookup_word" /\ lastArg' = [word |-> word, result |-> LookupWord(memory, word, DictInfo(memory).start, DictInfo(memory).entry_len, DictInfo(memory).num_entries)] /\ raised' = "none" /\ preState' = Before /\ UNCHANGED <<version, memory, vmVars, hostVars>>

NextDict ==
    \/ \E i \in 0..(Len(DictPool) - 1) : DoRecode(i)
    \/ \E word \in InputWords : DoEncodeWord(word)
    \/ \E word \in InputWords : DoLookupWord(word)

SpecDict == InitDict /\ [][NextDict]_vars

(***************************************************************************)
(* Tokenising.  The parse buffer of the image has room for two entries;    *)
(* its first byte, the number of entries the story allows, is 0, 1 or 2.   *)
(* A line is stored by _process_input called without a parse buffer and    *)
(* tokenised by _tokenise.                                                 *)
(***************************************************************************)
InitTok == \E v \in Versions : \E max_words \in 0..2 : InitCPU(v, Patch(Image[v], ParseBufAddr, <<max_words>>), 0) /\ InitHost

Lines == {<<>>, <<97>>, <<99>>, <<97, 98>>, <<97, 32, 98>>, <<98, 44, 97>>, <<44, 44, 44>>, <<32, 97, 32>>, <<65, 44>>, <<44, 32, 98, 98>>}

Applied(r) == /\ memory' = r.mem /\ raised' = r.exc /\ preState' = Before /\ UNCHANGED <<version, vmVars, hostVars>>

DoProcessInput(text) == /\ Applied(ProcessInput([mem |-> memory, exc |-> "none"], text, TextBufAddr, 0)) /\ lastOp' = "process_input" /\ lastArg' = text

DoTokenise == /\ Applied(Tokenise([mem |-> memory, exc |-> "none"], TextBufAddr, ParseBufAddr)) /\ lastOp' = "tokenise" /\ lastArg' = BufferText(memory, TextBufAddr)

NextTok ==
    \/ \E text \in Lines : DoProcessInput(text)
    \/ DoTokenise

SpecTok == InitTok /\ [][NextTok]_vars

(***************************************************************************)
(* Attribute calls.  An attribute number is an operand of an instruction,  *)
(* any value from 0 to 65535; object 1 is given numbers up to and past the *)
(* 32 or 48 attributes of an object, object 2 two of them.                 *)
(***************************************************************************)
AttrNums == {0, 31, 32, 48, 72, 65535}

AttrCalls == ({0, 1} \X AttrNums) \cup ({2} \X {0, 32})

InitAttr == \E v \in Versions : InitVM(v) /\ InitHost

DoSetAttribute(obj, attr) == /\ Applied(SetAttribute([mem |-> memory, exc |-> "none"], obj, attr)) /\ lastOp' = "set_attribute" /\ lastArg' = <<obj, attr>>

DoClearAttribute(obj, attr) == /\ Applied(ClearAttribute([mem |-> memory, exc |-> "none"], obj, attr)) /\ lastOp' = "clear_attribute" /\ lastArg' = <<obj, attr>>

NextAttr ==
    \/ \E c \in AttrCalls : DoSetAttribute(c[1], c[2])
    \/ \E c \in AttrCalls : DoClearAttribute(c[1], c[2])

SpecAttr == InitAttr /\ [][NextAttr]_vars

(***************************************************************************)
(* A story that prints: print_char 'A', a read, print_num -3, new_line,    *)
(* quit.  The host runs it, sends lines, prints through print_text,        *)
(* restarts the machine and fetches the output.  lastArg keeps the text    *)
(* returned, the text printed since the previous get_output or the load,   *)
(* and the part of it printed after the latest restart.                    *)
(***************************************************************************)
MaxOutput == 3

OutMain(v) == <<229, 127, 65>> \o (IF v <= 4 THEN <<228, 95, TextBufAddr, ParseBufAddr>> ELSE <<228, 95, TextBufAddr, ParseBufAddr, 16>>) \o <<230, 63, 255, 253, 187, 186>>

OutImage(v) == Patch(Image[v], InitialPC(v), OutMain(v))

InitOut == \E v \in Versions : InitCPU(v, OutImage(v), 0) /\ InitHost

OutTexts == {<<104>>, <<105, 33>>}

Fetched == lastOp \in {"init", "get_output"}

Pending == IF Fetched THEN <<>> ELSE lastArg.printed

Recent == IF Fetched THEN <<>> ELSE lastArg.recent

Out(result, printed, recent) == [result |-> result, printed |-> printed, recent |-> recent]

DoPrintText(text) == /\ Len(Pending) + Len(text) <= MaxOutput /\ Commit(PrintText(Self, text), snap) /\ lastOp' = "print_text" /\ lastArg' = Out(<<>>, Pending \o text, Recent \o text) /\ preState' = Before /\ UNCHANGED snapTaken

DoGetOutput == /\ Commit(GetOutput(Self).vm, snap) /\ lastOp' = "get_output" /\ lastArg' = Out(GetOutput(Self).text, Pending, Recent) /\ preState' = Before /\ UNCHANGED snapTaken

DoRestart == /\ Commit(Restart(Self, OutImage(version)), snap) /\ lastOp' = "restart" /\ lastArg' = Out(<<>>, Pending, <<>>) /\ preState' = Before /\ UNCHANGED snapTaken

DoRunStory(max_steps) == /\ instruction_count + max_steps <= MaxInstr /\ Commit(Run(Self, max_steps), snap) /\ lastOp' = "run" /\ lastArg' = Out(<<>>, Pending \o Run(Self, max_steps).printed, Recent \o Run(Self, max_steps).printed) /\ preState' = Before /\ UNCHANGED snapTaken

DoSendLine(text) == /\ waiting_for_input /\ Commit(SendInput(Self, text), snap) /\ lastOp' = "send_input" /\ lastArg' = Out(<<>>, Pending \o SendInput(Self, text).printed, Recent \o SendInput(Self, text).printed) /\ preState' = Before /\ UNCHANGED snapTaken

NextOut ==
    \/ \E text \in OutTexts : DoPrintText(text)
    \/ DoGetOutput
    \/ DoRestart
    \/ \E max_steps \in 1..MaxSteps : DoRunStory(max_steps)
    \/ DoSendLine(<<97>>)

SpecOut == InitOut /\ [][NextOut]_vars

(***************************************************************************)
(* The printing story with snapshots: the host runs it, sends a line,      *)
(* fetches the output, saves and restores.  lastArg keeps the text printed *)
(* since the previous get_output as above.                                 *)
(***************************************************************************)
DoSaveSnapshot == /\ Commit(Self, SaveState(Self)) /\ snapTaken' = [view |-> VMView, waiting |-> waiting_for_input, callback |-> pending_input_callback] /\ lastOp' = "save_state" /\ lastArg' = Out(<<>>, Pending, Recent) /\ preState' = Before

DoRestoreSnapshot == /\ snap.taken /\ Commit(RestoreState(Self, snap), snap) /\ lastOp' = "restore_state" /\ lastArg' = Out(<<>>, Pending, Recent) /\ preState' = Before /\ UNCHANGED snapTaken

NextSnap ==
    \/ \E max_steps \in 1..MaxSteps : DoRunStory(max_steps)
    \/ DoSendLine(<<97>>)
    \/ DoGetOutput
    \/ DoSaveSnapshot
    \/ DoRestoreSnapshot

SpecSnap == InitOut /\ [][NextSnap]_vars

(***************************************************************************)
(* The host operations of Spec together with restart.                      *)
(***************************************************************************)
DoRestartStory == /\ Commit(Restart(Self, Image[version]), snap) /\ lastOp' = "restart" /\ lastArg' = <<>> /\ preState' = Before /\ UNCHANGED snapTaken

NextHost ==
    \/ \E max_steps \in 0..MaxSteps : DoRun(max_steps, 0)
    \/ DoStep(0)
    \/ DoSendInput(<<97>>)
    \/ DoSaveState
    \/ DoRestoreState
    \/ DoRestartStory

SpecHost == Init /\ [][NextHost]_vars

(***************************************************************************)
(* Single instructions.  A story is some pushes followed by the            *)
(* instruction under study and quit instructions; the host steps through   *)
(* it.                                                                     *)
(***************************************************************************)
\* Nothing, push 5, or push 5 and push 65535.
Pushes == {<<>>, <<232, 127, 5>>, <<232, 127, 5, 232, 63, 255, 255>>}

Quits == <<186, 186>>

\* Instructions of opcodes step has no case for: throw and 2OP:00, 2OP:1D,
\* 2OP:1F in long form on constants, on the stack, on global 0 and on the
\* last global, which lies outside these images, throw in
\* variable form, encode_text with four small constants, with none and with
\* two stack operands, 0OP:09 (catch from version 5), and 190 followed by 5
\* (0OP:0E up to version 4, the unassigned extended opcode 5 from version 5).
UnknownInstrs == {<<28, 1, 2>>, <<124, 0, 0>>, <<92, 16, 5>>, <<92, 255, 5>>, <<0, 1, 2>>, <<29, 0, 2>>, <<63, 1, 0>>, <<220, 43, 1, 2, 0, 0>>, <<252, 85, 1, 2, 3, 4>>, <<252, 255>>, <<252, 175, 0, 0>>, <<185, 16>>, <<190, 5, 127, 7>>, <<190, 5, 43, 1, 2, 0, 0>>}

UnknownMains == {pushes \o instr \o Quits : pushes \in Pushes, instr \in UnknownInstrs}

\* load of variable 0 named by a small constant into global 0 and into the
\* stack, named by a large constant, of local 1, of global 0 into the stack,
\* and of the variable the stack names.
LoadInstrs == {<<158, 0, 16>>, <<158, 0, 0>>, <<142, 0, 0, 16>>, <<158, 1, 16>>, <<158, 16, 0>>, <<174, 0, 16>>}

LoadMains == {pushes \o instr \o Quits : pushes \in Pushes, instr \in LoadInstrs}

\* push of a start value, then dec_chk (196) or inc_chk (197) in variable
\* form on the stack and a large constant, branching by 3 on true or on
\* false.
ChkValues == {0, 5, 32767, 32768, 65535}

ChkMains == {<<232, 63, Hi(start), Lo(start), opcode, 79, 0, Hi(value), Lo(value), field>> \o Quits : start \in ChkValues, value \in ChkValues, opcode \in {196, 197}, field \in {195, 67}}

\* check_arg_count n with a short branch field of offset 1 (return true)
\* or 3, on true or on false.
ArgChecks == {<<255, 127, n, field>> : n \in 0..3, field \in {193, 65, 195, 67}}

\* A routine of k locals that starts with check_arg_count, called with the
\* first m of the arguments 7, 8, 9.
ArgRoutines(v) == {RoutineOf(v, k, check \o <<177>>) : k \in 0..2, check \in ArgChecks}

ArgCalls(v) == {CallBytes(v, 224, m, <<16, 186>>) : m \in 0..3}

\* check_arg_count outside any routine.
ArgMains == {check \o Quits : check \in ArgChecks}

\* save (181) and restore (182), followed by a short branch field of
\* offset 3 up to version 3 and by a store byte (the stack, global 0) from
\* version 4, after nothing or a push; from version 5 also the extended
\* save and restore without operands.
SaveInstrs(v) == IF v <= 3 THEN {<<opcode, field>> : opcode \in {181, 182}, field \in {195, 67}} ELSE {<<opcode, store>> : opcode \in {181, 182}, store \in {0, 16}} \cup (IF v >= 5 THEN {<<190, n, 255, store>> : n \in {0, 1}, store \in {0, 16}} ELSE {})

SaveMains(v) == {pushes \o instr \o Quits : pushes \in {<<>>, <<232, 127, 5>>}, instr \in SaveInstrs(v)}

OpMains(v) == UnknownMains \cup LoadMains \cup ChkMains \cup ArgMains \cup SaveMains(v)

OpPrograms(v) == [routine : {RoutineBytes(v)}, main : OpMains(v)] \cup [routine : ArgRoutines(v), main : ArgCalls(v)]

InitOps == \E v \in Versions : \E prog \in OpPrograms(v) : InitCPU(v, ProgImage(v, prog), 0) /\ InitHost

NextOps == DoStep(0)

SpecOps == InitOps /\ [][NextOps]_vars

(***************************************************************************)
(* Loading.  The host constructs a machine from a story file: an image of  *)
(* this module cut to a length and given a version byte.  A construction   *)
(* that raises leaves the host with the machine it had.                    *)
(***************************************************************************)
LoadVersions == {0, 1, 3, 6, 7, 8, 9, 255}

LoadLengths(v) == {0, 1, 2, 3, 29, 30, 43, 44, 63, 64, Len(Image[v])}

StoriesOf(v) == {SubSeq(Patch(Image[v], 0, <<ver>>), 1, n) : ver \in LoadVersions, n \in LoadLengths(v)}

Stories == UNION {StoriesOf(v) : v \in Versions}

\* The error _parse_header raises on the bytes: the index of bytes 0 and 1,
\* the unpacking of the words up to offset 30 and, in versions 6 and 7, of
\* the two offsets up to 44.
HeaderError(data) == IF Len(data) < 2 THEN "IndexError" ELSE IF Len(data) < 30 THEN "struct.error" ELSE IF data[1] \in {6, 7} /\ Len(data) < 44 THEN "struct.error" ELSE "none"

\* The machine __init__ leaves.
Constructed(data) == /\ version' = data[1] /\ memory' = data /\ pc' = ReadWord(data, 6) /\ stack' = <<>> /\ call_stack' = <<>> /\ locals' = 1 /\ heap' = [r \in Refs |-> ZeroLocals] /\ rng' = Unseeded(0) /\ output_buffer' = <<>> /\ running' = FALSE /\ finished' = FALSE /\ waiting_for_input' = FALSE /\ pending_input_callback' = NoCallback /\ instruction_count' = 0

DoLoad(data) == /\ lastOp' = "load" /\ lastArg' = data /\ raised' = HeaderError(data) /\ preState' = Before /\ UNCHANGED hostVars /\ IF HeaderError(data) = "none" THEN Constructed(data) ELSE UNCHANGED <<version, memory, vmVars>>

InitLoad == InitVM(3) /\ InitHost

NextLoad == \E data \in Stories : DoLoad(data)

SpecLoad == InitLoad /\ [][NextLoad]_vars

(***************************************************************************)
(* Snapshots and input                                                     *)
(***************************************************************************)
\* The parts of the machine claims C1 and C2 speak of.
Restored(view) == [memory |-> view.memory, pc |-> view.pc, stack |-> view.stack, call_stack |-> view.call_stack, locals |-> view.locals]

\* C1: a snapshot returned by save_state is never changed by later
\* execution: whatever was executed after it was taken, restore_state of it
\* yields the dynamic memory, pc, evaluation stack, call stack (with every
\* frame's saved locals) and current locals of the moment it was taken.
C1_SnapshotUnchanged == lastOp = "restore_state" => Restored(VMView) = Restored(snapTaken.view)

\* C2: restore_state(save_state()) performed immediately leaves dynamic
\* memory, pc, the evaluation stack, the call stack, the current locals and
\* the RNG state as they were before the two calls.
C2_RoundTrip == (lastOp = "restore_state" /\ preState.op = "save_state") => VMView = snapTaken.view

C2_Witness == lastOp = "restore_state" /\ preState.op = "save_state" /\ call_stack # <<>> /\ heap[locals][1] = 7 /\ VMView = snapTaken.view

\* What a read leaves in its text buffer for the input line text: the line
\* in lower case, cut to the capacity in byte 0 of the buffer.
LineOf(m, text_buffer, text) == Truncate(LowerText(text), ReadByte(m, text_buffer))

TextBufferHolds(m, text_buffer, t) == IF version <= 4 THEN BytesAt(m, text_buffer + 1, text_buffer + Len(t)) = t /\ ReadByte(m, text_buffer + 1 + Len(t)) = 0 ELSE ReadByte(m, text_buffer + 1) = Len(t) /\ BytesAt(m, text_buffer + 2, text_buffer + 1 + Len(t)) = t

\* C3: after restore_state of a snapshot taken while the machine was
\* waiting for a line of input, the next command works: a following
\* send_input(text) writes text into the text buffer of the pending read.
C3_NextCommandDelivered == (lastOp = "send_input" /\ preState.op = "restore_state" /\ snapTaken.waiting /\ snapTaken.callback.kind = "line") => TextBufferHolds(memory, snapTaken.callback.text_buffer, LineOf(memory, snapTaken.callback.text_buffer, lastArg))

\* C4: after restore_state, whatever the snapshot and the state before the
\* call, waiting_for_input is false and no input continuation is registered.
C4_RestoreClearsWaiting == lastOp = "restore_state" => (~waiting_for_input /\ pending_input_callback = NoCallback)

C4_Witness == lastOp = "restore_state" /\ preState.waiting /\ ~snapTaken.waiting /\ ~waiting_for_input /\ pending_input_callback = NoCallback

InputOpcodes == {"sread", "aread", "read_char"}

\* C9: an executed sread, aread or read_char sets waiting_for_input,
\* registers a continuation and makes step return False, so it is the last
\* instruction its run executes; and while waiting_for_input holds, step and
\* run change neither pc, memory, the stacks nor instruction_count.
C9_ReadIsLast(arg, waiting, callback) == \A i \in 1..Len(arg.trace) : arg.trace[i] \in InputOpcodes => (i = Len(arg.trace) /\ ~arg.cont /\ waiting /\ callback # NoCallback)

C9_InputSuspends == [][lastOp' \in {"run", "step"} => (C9_ReadIsLast(lastArg', waiting_for_input', pending_input_callback') /\ (waiting_for_input => (pc' = pc /\ memory' = memory /\ stack' = stack /\ DeepFrames(call_stack', heap') = DeepFrames(call_stack, heap) /\ instruction_count' = instruction_count)))]_vars

C9_Witness == lastOp = "run" /\ preState.waiting /\ preState.op = "run" /\ lastArg.trace = <<>> /\ waiting_for_input /\ pending_input_callback.kind = "line" /\ instruction_count = 2

\* The tokens of the line t: every separator, and every longest run of
\* characters that are neither spaces nor separators.
IsBreak(t, separators, i) == t[i] = 32 \/ t[i] \in separators

TokenStarts(t, separators) == {i \in 1..Len(t) : t[i] \in separators \/ (t[i] # 32 /\ (i = 1 \/ IsBreak(t, separators, i - 1)))}

TokenEnd(t, separators, i) == IF t[i] \in separators THEN i ELSE CHOOSE j \in i..Len(t) : (\A k \in i..j : ~IsBreak(t, separators, k)) /\ (j = Len(t) \/ IsBreak(t, separators, j + 1))

KthStart(starts, k) == CHOOSE i \in starts : Cardinality({j \in starts : j < i}) = k - 1

\* The dictionary of the image holds the words "a" and "b", in this order.
EntryOf(word, d) == IF word = <<97>> THEN d.start ELSE IF word = <<98>> THEN d.start + d.entry_len ELSE 0

ParseEntryHolds(m, addr, t, d, i) == ReadWord(m, addr) = EntryOf(SubSeq(t, i, TokenEnd(t, d.separators, i)), d) /\ ReadByte(m, addr + 2) = TokenEnd(t, d.separators, i) - i + 1 /\ ReadByte(m, addr + 3) = (IF version <= 4 THEN i ELSE i + 1)

ParseCount(m, parse_buffer, starts) == IF Cardinality(starts) < ReadByte(m, parse_buffer) THEN Cardinality(starts) ELSE ReadByte(m, parse_buffer)

ParseBufferHolds(m, parse_buffer, t, d) == ReadByte(m, parse_buffer + 1) = ParseCount(m, parse_buffer, TokenStarts(t, d.separators)) /\ \A k \in 1..ParseCount(m, parse_buffer, TokenStarts(t, d.separators)) : ParseEntryHolds(m, parse_buffer + 2 + 4 * (k - 1), t, d, KthStart(TokenStarts(t, d.separators), k))

\* Variable var_num holds value: the top of the stack, a local or a global.
VariableIs(m, st, loc, var_num, value) == IF var_num = 0 THEN st # <<>> /\ st[Len(st)] = value ELSE IF var_num < 16 THEN loc[var_num] = value ELSE ReadWord(m, Header.globals + (var_num - 16) * 2) = value

\* C10: send_input(text) on a machine suspended in sread / aread writes the
\* line into the text buffer the read named and tokenises it into the read's
\* parse buffer, stores the terminator 13 into the read's store variable in
\* versions >= 5 and stores to no variable in versions <= 4, clears
\* waiting_for_input, executes no instruction and leaves pc unchanged.
C10_SendInputDelivers == [][(lastOp' = "send_input" /\ waiting_for_input /\ pending_input_callback.kind = "line") => (raised' = "none" /\ TextBufferHolds(memory', pending_input_callback.text_buffer, LineOf(memory, pending_input_callback.text_buffer, lastArg')) /\ ParseBufferHolds(memory', pending_input_callback.parse_buffer, LineOf(memory, pending_input_callback.text_buffer, lastArg'), DictInfo(memory)) /\ (version >= 5 => VariableIs(memory', stack', heap'[locals'], pending_input_callback.store_var, 13)) /\ (version <= 4 => (stack' = stack /\ heap'[locals'] = heap[locals] /\ BytesAt(memory', Header.globals, Header.globals + 3) = BytesAt(memory, Header.globals, Header.globals + 3))) /\ ~waiting_for_input' /\ pending_input_callback' = NoCallback /\ pc' = pc /\ instruction_count' = instruction_count)]_vars

C10_Witness == lastOp = "send_input" /\ lastArg = <<65, 44, 98>> /\ preState.waiting /\ ~waiting_for_input /\ version >= 5 /\ call_stack # <<>> /\ heap[locals][1] = 13 /\ ReadByte(memory, ParseBufAddr + 1) = 2 /\ TextBufferHolds(memory, TextBufAddr, <<97, 44, 98>>)

\* C11: run(max_steps) returns after executing at most max_steps
\* instructions; it returns before the cap only if the machine is then
\* waiting for input or finished; on every normal return running is False.
C11_RunReturns == [][(lastOp' = "run" /\ raised' = "none") => (~running' /\ instruction_count' - instruction_count = Len(lastArg'.trace) /\ Len(lastArg'.trace) <= lastArg'.max_steps /\ (Len(lastArg'.trace) < lastArg'.max_steps => (waiting_for_input' \/ finished')))]_vars

C11_Witness == lastOp = "run" /\ raised = "none" /\ lastArg.max_steps = 1 /\ lastArg.trace = <<"ret">> /\ ~waiting_for_input /\ ~finished /\ ~running

(***************************************************************************)
(* Returns, calls and branches                                             *)
(***************************************************************************)
\* The instruction at pc is jz with a small-constant operand.
JzAtPC == ReadByte(memory, pc) = 144

JzOperand == ReadByte(memory, pc + 1)

\* The branch field that follows the operand of the jz at pc: its first
\* byte, whether it is the one-byte form, its offset, its polarity bit and
\* the address after it.
FieldFirst == ReadByte(memory, pc + 2)

FieldShort == (FieldFirst \div 64) % 2 = 1

FieldLong == (FieldFirst % 64) * 256 + ReadByte(memory, pc + 3)

FieldOffset == IF FieldShort THEN FieldFirst % 64 ELSE IF FieldLong >= 8192 THEN FieldLong - 16384 ELSE FieldLong

FieldPolarity == FieldFirst >= 128

FieldEnd == pc + (IF FieldShort THEN 3 ELSE 4)

JzTaken == (JzOperand = 0) = FieldPolarity

\* A step is about to execute, outside any routine, a return instruction
\* (rtrue, rfalse, ret with a small constant, ret_popped) or a jz whose
\* taken branch has offset 0 or 1; or it is about to execute quit.
ReturnsAtTopLevel == \/ (call_stack = <<>> /\ ReadByte(memory, pc) \in {176, 177, 155, 184}) \/ (call_stack = <<>> /\ JzAtPC /\ JzTaken /\ FieldOffset \in {0, 1}) \/ ReadByte(memory, pc) = 186

Stepped == lastOp' = "step" /\ raised' = "none" /\ ~finished /\ ~waiting_for_input

TopFrame == call_stack[Len(call_stack)]

\* The step just taken returned from the routine being executed.
Returned == lastOp' = "step" /\ raised' = "none" /\ call_stack # <<>> /\ call_stack' = SubSeq(call_stack, 1, Len(call_stack) - 1)

\* The value the return instruction at pc returns: rtrue, rfalse, ret with
\* a small constant, ret_popped, or a jz branch with offset 0 or 1.
RetValue == IF ReadByte(memory, pc) = 176 THEN 1 ELSE IF ReadByte(memory, pc) = 177 THEN 0 ELSE IF ReadByte(memory, pc) = 155 THEN ReadByte(memory, pc + 1) ELSE IF ReadByte(memory, pc) = 184 THEN stack[Len(stack)] ELSE FieldOffset

Global0 == ReadWord(memory, Header.globals)

\* The return value went to the frame's store variable (the stack or
\* global 0) exactly when one was declared.
ValueStored == IF TopFrame.store_var = 0 THEN stack'[Len(stack')] = RetValue ELSE IF TopFrame.store_var = 16 THEN Global0' = RetValue ELSE memory' = memory

\* C13: for every call to a non-zero routine and its matching return:
\* after the return pc is the address following the call instruction, the
\* locals equal the caller's locals at call time, the stack is cut back to
\* exactly the depth captured at call time (whatever the callee pushed or
\* popped), and the return value is written to the frame's store variable
\* exactly when one was declared.
C13_ReturnRestores == [][Returned => (pc' = TopFrame.return_pc /\ heap'[locals'] = heap[TopFrame.locals] /\ Len(stack') = TopFrame.stack_depth + (IF TopFrame.store_var = 0 THEN 1 ELSE 0) /\ ValueStored)]_vars

\* The instruction at pc is a variable-form call or call_vn whose operands
\* are a large-constant routine and m small constants, 0 <= m <= 3.
CallAtPC == ReadByte(memory, pc) \in {224, 249} /\ ReadByte(memory, pc + 1) \in {63, 31, 23, 21}

\* Its number of arguments m, argument i (from 0), the routine's address and
\* the routine's number of locals k.
ArgCount == CHOOSE m \in 0..3 : <<63, 31, 23, 21>>[m + 1] = ReadByte(memory, pc + 1)

Arg(i) == ReadByte(memory, pc + 4 + i)

Routine == ReadWord(memory, pc + 2) * (IF version <= 3 THEN 2 ELSE 4)

LocalCount == ReadByte(memory, Routine)

\* The step just taken entered a routine.
Called == lastOp' = "step" /\ raised' = "none" /\ Len(call_stack') = Len(call_stack) + 1

\* Local i (from 0) of the routine just entered.
NewLocal(i) == heap'[locals'][i + 1]

\* C14: a call to a routine with k locals and arguments a_0..a_(m-1) makes
\* local i (i < k) equal to a_i when i < m, and otherwise to the routine
\* header's default word in versions up to 4 and to 0 from version 5;
\* arguments with index k or more are discarded; pc becomes routine + 1 + 2k
\* in versions up to 4 and routine + 1 from version 5.
C14_CallSetsLocals == [][(Called /\ CallAtPC) => ((\A i \in 0..(NumLocalSlots - 1) : NewLocal(i) = IF i < LocalCount /\ i < ArgCount THEN Arg(i) ELSE IF i < LocalCount /\ version <= 4 THEN ReadWord(memory, Routine + 1 + 2 * i) ELSE 0) /\ pc' = Routine + 1 + (IF version <= 4 THEN 2 * LocalCount ELSE 0))]_vars

C14_Witness == lastOp = "step" /\ lastArg.trace = <<"call">> /\ raised = "none" /\ version = 4 /\ Len(call_stack) = 1 /\ heap[locals][1] = 7 /\ heap[locals][2] = 258 /\ heap[locals][3] = 0 /\ pc = RoutineAddr(4) + 5

\* The step just taken returned the value of RetValue: outside any routine
\* the machine finished, inside one the frame was left and the value stored.
ReturnedValue == IF call_stack = <<>> THEN finished' ELSE (call_stack' = SubSeq(call_stack, 1, Len(call_stack) - 1) /\ pc' = TopFrame.return_pc /\ ValueStored)

\* The step just taken went on at address target without returning.
WentOn(target) == pc' = target /\ call_stack' = call_stack /\ ~finished'

\* C15: a branch is taken exactly when the condition equals the polarity
\* bit of the branch field; a taken branch with offset 0 returns 0, with
\* offset 1 returns 1, and otherwise sets pc to (address after the branch
\* field) + offset - 2; a branch not taken leaves pc just after the field.
C15_BranchSemantics == [][(Stepped /\ JzAtPC) => IF JzTaken THEN (IF FieldOffset \in {0, 1} THEN ReturnedValue ELSE WentOn(FieldEnd + FieldOffset - 2)) ELSE WentOn(FieldEnd)]_vars

C15_Witness == lastOp = "step" /\ lastArg.trace = <<"jz">> /\ raised = "none" /\ instruction_count = 1 /\ pc = Header.initial_pc /\ ReadByte(memory, pc + 2) = 191 /\ ~finished

(***************************************************************************)
(* Arithmetic and random                                                   *)
(***************************************************************************)
\* The instruction at pc is the variable form of a 2OP instruction with two
\* large-constant operands that stores in global 0.
ArithAtPC(opcodes) == ReadByte(memory, pc) \in opcodes /\ ReadByte(memory, pc + 1) = 15 /\ ReadByte(memory, pc + 6) = 16

\* Its operands as signed 16-bit numbers.
Int16(w) == IF w > 32767 THEN w - 65536 ELSE w

ArithA == Int16(ReadWord(memory, pc + 2))

ArithB == Int16(ReadWord(memory, pc + 4))

AddSubMulOf == IF ReadByte(memory, pc) = 212 THEN ArithA + ArithB ELSE IF ReadByte(memory, pc) = 213 THEN ArithA - ArithB ELSE ArithA * ArithB

\* C16: add, sub and mul store (signed(a) op signed(b)) mod 2^16.
C16_AddSubMul == [][(Stepped /\ ArithAtPC({212, 213, 214})) => (Global0' = AddSubMulOf % 65536 /\ Global0' \in 0..65535 /\ pc' = pc + 7)]_vars

C16_Witness == lastOp = "step" /\ lastArg.trace = <<"mul">> /\ raised = "none" /\ ReadWord(memory, Header.initial_pc + 2) = 32768 /\ ReadWord(memory, Header.initial_pc + 4) = 65533 /\ Global0 = 32768

\* A step is taken by a machine that is neither finished nor waiting.
Executing == lastOp' = "step" /\ ~finished /\ ~waiting_for_input

\* C17: div and mod with a divisor of 0 raise an error without writing the
\* store variable; with a non-zero divisor they raise no error.
C17_DivisionByZero == [][(Executing /\ ArithAtPC({215, 216})) => IF ArithB = 0 THEN (raised' = "ZMachineError" /\ memory' = memory /\ stack' = stack) ELSE raised' = "none"]_vars

C17_Witness == lastOp = "step" /\ raised = "ZMachineError" /\ instruction_count = 1 /\ ReadByte(memory, Header.initial_pc) = 216 /\ ReadWord(memory, Header.initial_pc + 2) = 7 /\ ReadWord(memory, Header.initial_pc + 4) = 0 /\ Global0 = 0

\* The instruction at address p is random with one operand, a small or a
\* large constant, storing in the stack; its operand as a signed number and
\* the address after it.
RandomAt(p) == ReadByte(memory, p) = 231 /\ ReadByte(memory, p + 1) \in {127, 63} /\ ReadByte(memory, IF ReadByte(memory, p + 1) = 127 THEN p + 3 ELSE p + 4) = 0

RandomOperand(p) == IF ReadByte(memory, p + 1) = 127 THEN ReadByte(memory, p + 2) ELSE Int16(ReadWord(memory, p + 2))

RandomEnd(p) == IF ReadByte(memory, p + 1) = 127 THEN p + 4 ELSE p + 5

\* The operands of the random instructions from address p up to pc.
RECURSIVE OperandsFrom(_)
OperandsFrom(p) == IF p >= pc \/ ~RandomAt(p) THEN <<>> ELSE <<RandomOperand(p)>> \o OperandsFrom(RandomEnd(p))

History == OperandsFrom(Header.initial_pc)

\* The story so far is a straight line of random instructions.
StraightLine == call_stack = <<>> /\ Len(History) = instruction_count /\ Len(stack) = instruction_count

\* The position in the history of the last operand that seeded the
\* generator, or 0.
LastSeed == IF \E i \in 1..Len(History) : History[i] <= 0 THEN CHOOSE i \in 1..Len(History) : History[i] <= 0 /\ \A j \in (i + 1)..Len(History) : History[j] > 0 ELSE 0

Reseeded == LastSeed > 0 /\ History[IF LastSeed > 0 THEN LastSeed ELSE 1] < 0

\* The generator seeded from History[LastSeed] after the draws made since.
SeededSince == [seeded |-> TRUE, seed |-> 0 - History[LastSeed], draws |-> SubSeq(History, LastSeed + 1, Len(History))]

DrawnFromSeed == stack'[Len(stack')] \in 1..RandomOperand(pc) /\ stack'[Len(stack')] = RandInt(SeededSince, RandomOperand(pc))

\* C18: random with n < 0 reseeds the generator from |n| and stores 0; the
\* values stored by the random instructions with m > 0 that follow are in
\* 1..m and depend only on n and the sequence of m's.
C18_SeededRandom == [][(Stepped /\ StraightLine /\ RandomAt(pc)) => ((RandomOperand(pc) < 0 => stack' = Append(stack, 0)) /\ ((RandomOperand(pc) > 0 /\ Reseeded) => DrawnFromSeed))]_vars

C18_Witness == lastOp = "step" /\ lastArg.trace = <<"random">> /\ raised = "none" /\ instruction_count = 3 /\ History = <<0 - 3, 5, 3>> /\ rng.seeded /\ stack[1] = 0 /\ Len(stack) = 3 /\ stack[3] \in 1..3

(***************************************************************************)
(* The decoder                                                             *)
(***************************************************************************)
\* The first byte of the instruction at pc.
Opcode == ReadByte(memory, pc)

\* The branch field at address p and its length in bytes.
BranchWord(p) == (ReadByte(memory, p) % 64) * 256 + ReadByte(memory, p + 1)

BranchLen(p) == IF (ReadByte(memory, p) \div 64) % 2 = 1 THEN 1 ELSE 2

BranchAt(p) == [offset |-> IF BranchLen(p) = 1 THEN ReadByte(memory, p) % 64 ELSE IF BranchWord(p) >= 8192 THEN BranchWord(p) - 16384 ELSE BranchWord(p), on_true |-> ReadByte(memory, p) >= 128]

\* The i-th 2-bit type of the types byte t, i = 1 for the most significant
\* pair.
TypeOf(t, i) == (t \div (4 ^ (4 - i))) % 4

\* The number of pairs of t before the first pair equal to mark, 4 if none.
PairsBefore(t, mark) == IF \E i \in 1..4 : TypeOf(t, i) = mark THEN (CHOOSE i \in 1..4 : TypeOf(t, i) = mark /\ \A j \in 1..(i - 1) : TypeOf(t, j) # mark) - 1 ELSE 4

\* The bytes an operand of a type takes: a large constant two, a small
\* constant or a variable one.
Width(type) == IF type = 0 THEN 2 ELSE 1

\* Where operand i of the types byte t starts, counted from the first
\* operand byte.
RECURSIVE Offset(_, _)
Offset(t, i) == IF i = 1 THEN 0 ELSE Offset(t, i - 1) + Width(TypeOf(t, i - 1))

\* The bytes taken by the operands of t, which end at the first pair 3.
OperandsWidth(t) == Offset(t, PairsBefore(t, 3) + 1)

\* decode_instruction returned these fields and left pc at pc + length.
Returns(name, store_var, branch, length) == lastArg'.name = name /\ lastArg'.store_var = store_var /\ lastArg'.branch = branch /\ pc' = pc + length

Decoding == lastOp' = "decode_instruction" /\ raised' = "none"

\* 1OP:0F with a large constant (143), a small constant (159) or a
\* variable (175) operand.
Decoded1OP0F(width) == IF version <= 4 THEN Returns("not", ReadByte(memory, pc + 1 + width), NoBranch, 2 + width) ELSE Returns("call_1n", NoStore, NoBranch, 1 + width)

Decoded0OP09 == IF version <= 4 THEN Returns("pop", NoStore, NoBranch, 1) ELSE Returns("catch", ReadByte(memory, pc + 1), NoBranch, 2)

DecodedVAR04(width) == IF version <= 4 THEN Returns("sread", NoStore, NoBranch, 2 + width) ELSE Returns("aread", ReadByte(memory, pc + 2 + width), NoBranch, 3 + width)

DecodedSaveRestore(name) == IF version <= 3 THEN Returns(name, NoStore, BranchAt(pc + 1), 1 + BranchLen(pc + 1)) ELSE Returns(name, ReadByte(memory, pc + 1), NoBranch, 2)

\* C19: the decoder resolves name, store byte and branch field by version:
\* 1OP:0F is not with a store byte up to version 4 and call_1n without one
\* from version 5; 0OP:09 is pop without a store byte up to version 4 and
\* catch with one from version 5; VAR:04 is sread without a store byte up to
\* version 4 and aread with one from version 5; 0OP save and restore are
\* followed by a branch field up to version 3 and by a store byte and no
\* branch from version 4; pc after decoding reflects exactly these fields.
C19_DecodeByVersion == [][Decoding => ((Opcode \in {143, 159, 175} => Decoded1OP0F(IF Opcode = 143 THEN 2 ELSE 1)) /\ (Opcode = 185 => Decoded0OP09) /\ (Opcode = 228 => DecodedVAR04(OperandsWidth(ReadByte(memory, pc + 1)))) /\ (Opcode = 181 => DecodedSaveRestore("save")) /\ (Opcode = 182 => DecodedSaveRestore("restore")))]_vars

C19_Witness == lastOp = "decode_instruction" /\ raised = "none" /\ version = 5 /\ lastArg.name = "aread" /\ lastArg.store_var = 68 /\ Len(lastArg.operands) = 2 /\ pc = Header.initial_pc + 6

\* The instruction at pc is in variable form with a single types byte.
VarForm == Opcode >= 192 /\ Opcode \notin {236, 250}

TypesByte == ReadByte(memory, pc + 1)

\* Operand i of the instruction at pc as its types byte describes it: a
\* large constant is a word, a small constant a byte, a variable a byte that
\* numbers the variable.
OperandAt(i) == [type |-> IF TypeOf(TypesByte, i) = 2 THEN "var" ELSE "const", n |-> IF TypeOf(TypesByte, i) = 0 THEN ReadWord(memory, pc + 2 + Offset(TypesByte, i)) ELSE ReadByte(memory, pc + 2 + Offset(TypesByte, i))]

\* C20 as stated: in variable-form instructions the operand types are
\* packed two bits each, most significant pair first, and the type 0 marks
\* an omitted operand that ends the operand list: no operand is read for
\* that or any later position of the types byte.
C20_TypeZeroOmitted == [][(Decoding /\ VarForm) => Len(lastArg'.operands) <= PairsBefore(TypesByte, 0)]_vars

\* C20 amended: the operand types are packed two bits each, most
\* significant pair first, and the type 3 marks an omitted operand that ends
\* the operand list: no operand is read for that or any later position;
\* the types 0, 1 and 2 are a large constant, a small constant and a
\* variable, each read in turn.
C20_TypeThreeOmitted == [][(Decoding /\ VarForm) => (Len(lastArg'.operands) = PairsBefore(TypesByte, 3) /\ \A i \in 1..PairsBefore(TypesByte, 3) : lastArg'.operands[i] = OperandAt(i))]_vars

C20_Witness == lastOp = "decode_instruction" /\ raised = "none" /\ lastArg.name = "call" /\ ReadByte(memory, Header.initial_pc + 1) = 76 /\ lastArg.operands = <<[type |-> "const", n |-> 17], [type |-> "const", n |-> 8755]>> /\ lastArg.store_var = 68 /\ pc = Header.initial_pc + 6

(***************************************************************************)
(* Properties                                                              *)
(***************************************************************************)
\* The table object 1 was given, read back from the bytes after the image;
\* the other objects have no property.
TableOf(obj) == IF obj = 1 THEN CHOOSE t \in Tables(version) : SubSeq(memory, TableAddr(version) + 1, Len(memory)) = TableBytes(version, t) ELSE PropTable(0, <<>>)

\* The property numbers of obj in the order they are laid out.
NumbersOf(obj) == [i \in 1..Len(TableOf(obj).entries) |-> TableOf(obj).entries[i].num]

HasProperty(obj, prop) == \E i \in 1..Len(NumbersOf(obj)) : NumbersOf(obj)[i] = prop

\* C21: get_property(obj, p) for a property number p that is not in obj's
\* property table returns the word stored for p in the property defaults
\* table, at object_table + 2 * (p - 1); it returns neither 0 nor an error
\* unless that default is 0.
C21_PropertyDefault == (lastOp = "get_property" /\ ~HasProperty(lastArg.obj, lastArg.prop)) => (raised = "none" /\ lastArg.result = ReadWord(memory, Header.object_table + 2 * (lastArg.prop - 1)) /\ (lastArg.prop \in 1..(IF version <= 3 THEN 31 ELSE 63) => lastArg.result = 1000 + lastArg.prop))

C21_Witness == lastOp = "get_property" /\ raised = "none" /\ lastArg.obj = 1 /\ lastArg.prop = 4 /\ NumbersOf(1) = <<7, 3>> /\ lastArg.result = 1004

IsPrefix(a, b) == Len(a) <= Len(b) /\ a = SubSeq(b, 1, Len(a))

\* C22: property iteration follows declaration order: starting with
\* get_next_property(obj, 0) and calling get_next_property(obj, previous
\* result) until it returns 0 visits every property number of obj's table
\* exactly once, in the order the entries are laid out in memory, for the
\* size encodings of versions <= 3 and of versions >= 4 (two size bytes and
\* size 64 included).
C22_IterationOrder == lastOp = "get_next_property" => (raised = "none" /\ IsPrefix(lastArg.visited, NumbersOf(lastArg.obj)) /\ (lastArg.result = 0 => lastArg.visited = NumbersOf(lastArg.obj)))

C22_Witness == lastOp = "get_next_property" /\ raised = "none" /\ version = 5 /\ lastArg.obj = 1 /\ lastArg.result = 0 /\ lastArg.visited = <<63, 20, 4, 1>>

\* The encoded text of the dictionary entry at an address: its first 4 or 6
\* bytes.
EntryTextAt(addr) == BytesAt(memory, addr, addr + (IF version <= 3 THEN 4 ELSE 6) - 1)

\* C23: for a dictionary entry of a word over the alphabets A0 and A2,
\* decode_zstring followed by _encode_word reproduces the 4 (versions up to
\* 3) or 6 (version 4 and later) bytes of the entry's encoded text.
C23_DictionaryRoundTrip == lastOp = "recode" => (raised = "none" /\ lastArg.next = lastArg.entry + (IF version <= 3 THEN 4 ELSE 6) /\ lastArg.encoded = EntryTextAt(lastArg.entry))

C23_Witness == lastOp = "recode" /\ raised = "none" /\ version = 3 /\ lastArg.text = <<97, 98, 99, 100, 101>> /\ ReadByte(memory, lastArg.entry + 4) = 4 /\ lastArg.encoded = EntryTextAt(lastArg.entry) /\ lastArg.encoded = <<24, 232, 165, 69>>

\* The Z-characters of a source character: its place in A0, or the shift 5
\* and its place in A2; none for a character of neither.
SourceZChar(c) == IF c \in 97..122 THEN <<c - 91>> ELSE IF \E k \in 1..26 : A2[k] = c THEN <<5, 5 + (CHOOSE k \in 1..26 : A2[k] = c)>> ELSE <<>>

RECURSIVE SourceZ(_)
SourceZ(word) == IF word = <<>> THEN <<>> ELSE SourceZChar(Lower(Head(word))) \o SourceZ(Tail(word))

EncodedWords == IF version <= 3 THEN 2 ELSE 3

WordAt(bytes, i) == bytes[2 * i + 1] * 256 + bytes[2 * i + 2]

\* Z-character k, counted from 1, of a packed text.
UnpackedAt(bytes, k) == IF (k - 1) % 3 = 0 THEN (WordAt(bytes, (k - 1) \div 3) \div 1024) % 32 ELSE IF (k - 1) % 3 = 1 THEN (WordAt(bytes, (k - 1) \div 3) \div 32) % 32 ELSE WordAt(bytes, (k - 1) \div 3) % 32

\* C24: _encode_word returns 2 words (versions up to 3) or 3 words (version 4
\* and later) whatever the word; the top bit is set in the last word and
\* clear in the earlier ones; the Z-characters are those of the first 6 or 9
\* source characters, and every position they leave unused holds the pad 5.
C24_EncodeWordShape == lastOp = "encode_word" => (Len(lastArg.result) = 2 * EncodedWords /\ (\A i \in 0..(EncodedWords - 1) : (WordAt(lastArg.result, i) >= 32768) = (i = EncodedWords - 1)) /\ (\A k \in 1..(3 * EncodedWords) : UnpackedAt(lastArg.result, k) = ZOr5(SourceZ(Truncate(lastArg.word, 3 * EncodedWords)), k)))

C24_Witness == lastOp = "encode_word" /\ version = 3 /\ lastArg.word = <<49, 50, 51, 52, 53, 54, 55>> /\ lastArg.result = <<21, 37, 168, 171>>

\* Byte sequences of one length in dictionary order.
BytesLess(a, b) == \E k \in 1..Len(a) : a[k] < b[k] /\ \A j \in 1..(k - 1) : a[j] = b[j]

EntryCount == DictInfo(memory).num_entries

Ascending == \A i \in 0..(EntryCount - 1) : \A j \in (i + 1)..(EntryCount - 1) : BytesLess(EntryTextAt(EntryAddr(memory, i)), EntryTextAt(EntryAddr(memory, j)))

\* The entries a scan of the whole dictionary finds for a word.
Matches(word) == {i \in 0..(EntryCount - 1) : EntryTextAt(EntryAddr(memory, i)) = EncodeWord(word)}

\* C26: in a dictionary in ascending order of encoded bytes, _lookup_word
\* returns the address of the entry whose encoded text equals the encoded
\* word, and 0 when no entry does, as a linear scan would, for every word
\* and every dictionary size, 0 and 1 included.
C26_LookupIsLinearScan == (lastOp = "lookup_word" /\ Ascending) => (IF Matches(lastArg.word) = {} THEN lastArg.result = 0 ELSE \E i \in Matches(lastArg.word) : lastArg.result = EntryAddr(memory, i) /\ \A j \in Matches(lastArg.word) : i <= j)

C26_Witness == lastOp = "lookup_word" /\ Ascending /\ version = 5 /\ EntryCount = 6 /\ lastArg.word = <<98>> /\ Matches(lastArg.word) = {5} /\ lastArg.result = 293

\* The bytes of memory from an address on are the same in two memories.
SameFrom(m, n, addr) == \A a \in addr..(Len(m) - 1) : ReadByte(n, a) = ReadByte(m, a)

\* C25: _tokenise, for a text of n tokens and a parse buffer whose first
\* byte is max_words, writes min(n, max_words) into byte 1 and one entry of
\* four bytes (dictionary address, token length, token position) for each of
\* the first min(n, max_words) tokens in the order of the input; it writes
\* no byte after these entries, so none at or beyond
\* parse_buffer + 2 + 4 * max_words.
C25_ParseBufferBounded == [][lastOp' = "tokenise" => (raised' = "none" /\ lastArg' = BufferText(memory, TextBufAddr) /\ ParseBufferHolds(memory', ParseBufAddr, lastArg', DictInfo(memory)) /\ ReadByte(memory', ParseBufAddr) = ReadByte(memory, ParseBufAddr) /\ SameFrom(memory, memory', ParseBufAddr + 2 + 4 * ReadByte(memory', ParseBufAddr + 1)) /\ SameFrom(memory, memory', ParseBufAddr + 2 + 4 * ReadByte(memory, ParseBufAddr)))]_vars

C25_Witness == lastOp = "tokenise" /\ raised = "none" /\ version = 3 /\ lastArg = <<98, 44, 97>> /\ ReadByte(memory, ParseBufAddr) = 1 /\ BytesAt(memory, ParseBufAddr + 1, ParseBufAddr + 9) = <<1, 0, 184, 1, 1, 0, 0, 0, 0>>

\* A well-formed object table: every object with a parent occurs once in
\* the child chain of its parent, a child chain holds only children of its
\* object, and the parent links lead to 0.
WellFormed(m) == \A o \in 1..NumObjects : /\ (GetObjectParent(m, o) # 0 => Occurrences(ChainOf(m, GetObjectParent(m, o)), o) = 1) /\ (\A i \in 1..Len(ChainOf(m, o)) : GetObjectParent(m, ChainOf(m, o)[i]) = o) /\ ReachesRoot(m, o, NumObjects)

\* A sequence without the occurrences of x, the order kept.
RECURSIVE Without(_, _)
Without(seq, x) == IF seq = <<>> THEN <<>> ELSE (IF Head(seq) = x THEN <<>> ELSE <<Head(seq)>>) \o Without(Tail(seq), x)

FirstOr0(seq) == IF seq = <<>> THEN 0 ELSE Head(seq)

Inserted(m, n, obj, dest) == /\ GetObjectParent(n, obj) = dest /\ GetObjectChild(n, dest) = obj /\ GetObjectSibling(n, obj) = FirstOr0(Without(ChainOf(m, dest), obj)) /\ GetObjectChild(n, obj) = GetObjectChild(m, obj) /\ \A p \in 1..NumObjects : Without(ChainOf(n, p), obj) = Without(ChainOf(m, p), obj)

\* C27: after insert_object(obj, dest) with dest # 0 on a well-formed table,
\* parent(obj) = dest, child(dest) = obj, sibling(obj) is the first child
\* dest had once obj was detached, the child link of obj is unchanged and
\* the other children of every object keep their order.
C27_InsertLinks == [][(lastOp' = "insert_object" /\ lastArg'[2] # 0 /\ WellFormed(memory)) => (raised' = "none" /\ Inserted(memory, memory', lastArg'[1], lastArg'[2]))]_vars

LinksOf(m, o) == <<GetObjectParent(m, o), GetObjectSibling(m, o), GetObjectChild(m, o)>>

\* The child link of p heads the child chain of p; the parent and sibling
\* links of p are links outside it.
Removed(m, n, obj, p) == /\ GetObjectParent(n, obj) = 0 /\ GetObjectSibling(n, obj) = 0 /\ ChainOf(n, p) = Without(ChainOf(m, p), obj) /\ GetObjectChild(n, obj) = GetObjectChild(m, obj) /\ GetObjectParent(n, p) = GetObjectParent(m, p) /\ GetObjectSibling(n, p) = GetObjectSibling(m, p) /\ \A o \in 1..NumObjects : (o # p /\ Occurrences(ChainOf(m, p), o) = 0) => LinksOf(n, o) = LinksOf(m, o)

AttrWidth == IF version <= 3 THEN 32 ELSE 48

\* Attribute a of object o as the object table lays it out: bit
\* 7 - (a mod 8) of byte a div 8 of the entry of o.
AttributeOf(m, o, a) == (ReadByte(m, Header.object_table + (IF version <= 3 THEN 62 + 9 * (o - 1) ELSE 126 + 14 * (o - 1)) + (a \div 8)) \div (2 ^ (7 - (a % 8)))) % 2 = 1

FieldsOf(m, o) == <<GetObjectParent(m, o), GetObjectSibling(m, o), GetObjectChild(m, o), GetObjectPropAddr(m, o)>>

AttributeFrame(m, n, id, attr) == /\ (\A o \in 1..NumObjects : \A a \in 0..(AttrWidth - 1) : (o # id \/ a # attr) => AttributeOf(n, o, a) = AttributeOf(m, o, a)) /\ (\A o \in 1..NumObjects : FieldsOf(n, o) = FieldsOf(m, o))

\* C29: set_attribute(id, n) and clear_attribute(id, n) on an object id make
\* get_attribute(id, n) true and false and change no other attribute of any
\* object and no parent, sibling, child or property-table field, for every
\* attribute number an instruction can supply.
C29_AttributeFrame == [][(lastOp' \in {"set_attribute", "clear_attribute"} /\ lastArg'[1] # 0) => (raised' = "none" /\ GetAttribute(memory', lastArg'[1], lastArg'[2]) = [val |-> lastOp' = "set_attribute", exc |-> "none"] /\ AttributeFrame(memory, memory', lastArg'[1], lastArg'[2]))]_vars

\* C30 as stated: get_output returns the text printed since the previous
\* get_output or the load, in the order it was printed, and leaves the
\* buffer empty, so that a get_output right after another returns the
\* empty text.
C30_OutputSinceFetch == lastOp = "get_output" => (lastArg.result = lastArg.printed /\ output_buffer = <<>> /\ (preState.op = "get_output" => lastArg.result = <<>>))

\* C30: get_output returns the text printed since the latest of the
\* previous get_output, the load and a restart, in the order it was printed,
\* and leaves the buffer empty, so that a get_output right after another
\* returns the empty text.
C30_OutputSinceRestart == lastOp = "get_output" => (lastArg.result = lastArg.recent /\ output_buffer = <<>> /\ (preState.op = "get_output" => lastArg.result = <<>>))

C30_Witness == lastOp = "get_output" /\ raised = "none" /\ lastArg.printed = <<104, 105, 33>> /\ lastArg.result = <<105, 33>> /\ output_buffer = <<>>

(***************************************************************************)
(* Single instructions                                                     *)
(***************************************************************************)
\* The instruction at pc has an opcode step has no case for.
NoCaseFor2OP == (Opcode < 128 \/ Opcode \in 192..223) /\ (Opcode % 32) \in {0, 28, 29, 30, 31}

NoCaseFor == NoCaseFor2OP \/ Opcode = 252 \/ (Opcode = 185 /\ version >= 5) \/ (Opcode = 190 /\ version <= 4) \/ (Opcode = 190 /\ version >= 5 /\ pc + 1 < Len(memory) /\ ReadByte(memory, pc + 1) \notin {0, 1, 2, 3, 4, 9, 10, 11, 12})

\* Its length in bytes: the opcode, the types bytes, the operands and the
\* store byte (of catch).
NoCaseLength == CASE Opcode < 128 -> 3 [] Opcode >= 192 -> 2 + OperandsWidth(TypesByte) [] Opcode = 185 -> 2 [] Opcode = 190 /\ version <= 4 -> 1 [] OTHER -> 3 + OperandsWidth(ReadByte(memory, pc + 2))

\* The operands of the types byte t, stored from address base, that name
\* variable 0.
StackOperandsOf(t, base) == Cardinality({i \in 1..PairsBefore(t, 3) : TypeOf(t, i) = 2 /\ ReadByte(memory, base + Offset(t, i)) = 0})

\* The number of operands of the instruction at pc that name variable 0.
StackOperands == CASE Opcode < 128 -> (IF (Opcode \div 64) % 2 = 1 /\ ReadByte(memory, pc + 1) = 0 THEN 1 ELSE 0) + (IF (Opcode \div 32) % 2 = 1 /\ ReadByte(memory, pc + 2) = 0 THEN 1 ELSE 0) [] Opcode >= 192 -> StackOperandsOf(TypesByte, pc + 2) [] Opcode = 190 /\ version >= 5 -> StackOperandsOf(ReadByte(memory, pc + 2), pc + 3) [] OTHER -> 0

\* The variables the operands of the types byte t, stored from address
\* base, name.
VariablesOf(t, base) == {ReadByte(memory, base + Offset(t, i)) : i \in {j \in 1..PairsBefore(t, 3) : TypeOf(t, j) = 2}}

\* The variables the operands of the instruction at pc name.
OperandVariables == CASE Opcode < 128 -> (IF (Opcode \div 64) % 2 = 1 THEN {ReadByte(memory, pc + 1)} ELSE {}) \cup (IF (Opcode \div 32) % 2 = 1 THEN {ReadByte(memory, pc + 2)} ELSE {}) [] Opcode >= 192 -> VariablesOf(TypesByte, pc + 2) [] Opcode = 190 /\ version >= 5 -> VariablesOf(ReadByte(memory, pc + 2), pc + 3) [] OTHER -> {}

\* Every global among them has its word within memory.
GlobalsReadable == \A n \in OperandVariables : n >= 16 => Header.globals + 2 * (n - 16) + 1 < Len(memory)

\* step went through the instruction at pc as through a no-op: no error,
\* True returned, pc after the instruction, memory, call stack and locals
\* as before.
SteppedOver == raised' = "none" /\ lastArg'.cont /\ pc' = pc + NoCaseLength /\ memory' = memory /\ call_stack' = call_stack /\ heap'[locals'] = heap[locals]

SteppingNoCase == lastOp' = "step" /\ ~finished /\ ~waiting_for_input /\ pc < Len(memory) /\ NoCaseFor

\* The instruction at pc ends within memory.
NoCaseWithin == (Opcode >= 192 => pc + 1 < Len(memory)) /\ (Opcode = 190 /\ version >= 5 => pc + 2 < Len(memory)) /\ pc + NoCaseLength <= Len(memory)

\* C31 as stated: an instruction whose opcode has no implementation is a
\* no-op: step raises no error and returns True, pc has advanced past the
\* operand, store and branch bytes, and memory, the call stack and the
\* locals are unchanged.
C31_UnknownIsNoOp == [][SteppingNoCase => SteppedOver]_vars

\* C31 amended: the instruction is decoded and its operands are evaluated
\* first, each operand naming variable 0 popping the stack and each
\* operand naming a global reading its word.  When the instruction ends
\* within memory, the stack holds at least as many entries as there are
\* operands naming variable 0 and the globals named lie within memory, the
\* instruction is the no-op above and the stack has lost exactly these
\* entries; otherwise step raises an error.
C31_UnknownIsNoOpAfterOperands == [][SteppingNoCase => IF NoCaseWithin /\ Len(stack) >= StackOperands /\ GlobalsReadable THEN SteppedOver /\ stack' = SubSeq(stack, 1, Len(stack) - StackOperands) ELSE raised' # "none"]_vars

C31_Witness == lastOp = "step" /\ raised = "none" /\ version = 5 /\ lastArg.trace = <<"ext_xx">> /\ lastArg.cont /\ stack = <<>> /\ instruction_count = 3 /\ pc = Header.initial_pc + 14

(***************************************************************************)
(* Loading                                                                 *)
(***************************************************************************)
\* The story file is shorter than the header or its version byte is not one
\* of 1..8.
Malformed(data) == Len(data) < HeaderSize \/ data[1] \notin 1..8

\* C32: loading an image whose version byte is outside 1..8, or that is
\* shorter than the 64-byte header, is rejected with an error when the
\* machine is constructed, before any instruction executes.
C32_MalformedRejected == (lastOp = "load" /\ Malformed(lastArg)) => raised # "none"

(***************************************************************************)
(* The operands of call_vs2 and call_vn2                                   *)
(***************************************************************************)
\* The second types byte of an instruction with two of them.
TypesByte2 == ReadByte(memory, pc + 2)

\* The operands the two types bytes describe, which end at the first pair 3,
\* and the bytes they take after the two types bytes.
DoubleCount == IF PairsBefore(TypesByte, 3) < 4 THEN PairsBefore(TypesByte, 3) ELSE 4 + PairsBefore(TypesByte2, 3)

DoubleWidth == IF PairsBefore(TypesByte, 3) < 4 THEN OperandsWidth(TypesByte) ELSE OperandsWidth(TypesByte) + OperandsWidth(TypesByte2)

\* decode_instruction read two types bytes and the operands they describe,
\* and then the store byte of call_vs2.
DecodedDouble == Len(lastArg'.operands) = DoubleCount /\ (IF Opcode = 236 THEN lastArg'.store_var = ReadByte(memory, pc + 3 + DoubleWidth) /\ pc' = pc + 4 + DoubleWidth ELSE lastArg'.store_var = NoStore /\ pc' = pc + 3 + DoubleWidth)

\* decode_instruction read one types byte, its operands, and the store byte
\* of call.
DecodedSingle == Len(lastArg'.operands) = PairsBefore(TypesByte, 3) /\ (Opcode = 224 => (lastArg'.store_var = ReadByte(memory, pc + 2 + OperandsWidth(TypesByte)) /\ pc' = pc + 3 + OperandsWidth(TypesByte)))

\* C33: for call_vs2 and call_vn2 the decoder consumes two operand-type
\* bytes and up to 8 operands whatever the number of operands present, and
\* for every other variable-form opcode one types byte and up to 4
\* operands, so that the store byte and the next instruction are read from
\* the address that follows the encoded operands.
C33_TwoTypesBytes == [][Decoding => ((Opcode \in {236, 250} => DecodedDouble) /\ (VarForm => DecodedSingle))]_vars

(***************************************************************************)
(* load                                                                    *)
(***************************************************************************)
\* The value of variable var_num after the step; variable 0 is the top of
\* the stack.
ValueAfter(var_num) == IF var_num = 0 THEN stack'[Len(stack')] ELSE IF var_num < 16 THEN heap'[locals'][var_num] ELSE ReadWord(memory', Header.globals + 2 * (var_num - 16))

\* The instruction at pc is load with a constant operand naming variable 0,
\* and the store byte that follows it.
LoadsStack == (Opcode = 158 /\ ReadByte(memory, pc + 1) = 0) \/ (Opcode = 142 /\ ReadWord(memory, pc + 1) = 0)

LoadStore == ReadByte(memory, IF Opcode = 142 THEN pc + 3 ELSE pc + 2)

\* C34: load applied to variable 0 peeks the evaluation stack: the value
\* stored is the top of the stack before the instruction, and the top
\* element is not removed: the stack after the instruction is the stack
\* before it, plus the stored copy when the store target is also variable 0.
C34_LoadPeeks == [][(lastOp' = "step" /\ ~finished /\ ~waiting_for_input /\ pc + 4 < Len(memory) /\ LoadsStack /\ stack # <<>>) => (raised' = "none" /\ ValueAfter(LoadStore) = stack[Len(stack)] /\ stack' = (IF LoadStore = 0 THEN Append(stack, stack[Len(stack)]) ELSE stack))]_vars

(***************************************************************************)
(* inc_chk and dec_chk                                                     *)
(***************************************************************************)
\* The instruction at pc is dec_chk or inc_chk in variable form on variable
\* 0, named by a small constant, and a large constant, with a short branch
\* field.
ChkAtPC == Opcode \in {196, 197} /\ TypesByte = 79 /\ ReadByte(memory, pc + 2) = 0 /\ ReadByte(memory, pc + 5) % 128 >= 64

\* The new value of the variable: the top of the stack plus or minus 1 in
\* 16 bits.
ChkNew == (stack[Len(stack)] + (IF Opcode = 197 THEN 1 ELSE 65535)) % 65536

\* The condition of the branch on the new value and the second operand,
\* both read as signed 16-bit numbers.
ChkCondition == IF Opcode = 197 THEN Signed(ChkNew) > Signed(ReadWord(memory, pc + 3)) ELSE Signed(ChkNew) < Signed(ReadWord(memory, pc + 3))

\* The step branched: pc is the address after the instruction plus the
\* offset minus 2.
ChkBranched == pc' = pc + 6 + (ReadByte(memory, pc + 5) % 64) - 2

\* C35: inc_chk adds 1 to the variable with 16-bit wraparound and branches
\* exactly when the new stored value, read as a signed 16-bit number, is
\* greater than the signed second operand; dec_chk subtracts 1 and branches
\* exactly when the new stored value is less; for every starting value,
\* 32767 (inc_chk) and -32768 (dec_chk) included.
C35_ChkSignedWrap == [][(lastOp' = "step" /\ ~finished /\ ~waiting_for_input /\ pc + 6 < Len(memory) /\ ChkAtPC /\ stack # <<>>) => (raised' = "none" /\ stack' = [stack EXCEPT ![Len(stack)] = ChkNew] /\ (ChkBranched <=> (ChkCondition = (ReadByte(memory, pc + 5) >= 128))) /\ (~ChkBranched => pc' = pc + 6))]_vars

(***************************************************************************)
(* check_arg_count                                                         *)
(***************************************************************************)
\* The instruction at pc is check_arg_count with a small constant and a
\* short branch field.
ArgCheckAtPC == Opcode = 255 /\ TypesByte = 127 /\ ReadByte(memory, pc + 3) % 128 >= 64

\* The current routine was entered by the call at the start of the story,
\* and the number of arguments that call gives after the routine address.
CalledFromStart == Len(call_stack) = 1 /\ ReadByte(memory, Header.initial_pc) = 224

ArgsGiven == PairsBefore(ReadByte(memory, Header.initial_pc + 1), 3) - 1

\* Argument n was provided.
ArgProvided == call_stack # <<>> /\ ReadByte(memory, pc + 2) <= ArgsGiven

\* The branch of offset 1 returned true from the routine, or ended the
\* story outside any routine; the branch of offset 3 went one byte past the
\* instruction.
ArgBranched == IF ReadByte(memory, pc + 3) % 64 = 1 THEN (IF call_stack = <<>> THEN finished' ELSE Len(call_stack') = Len(call_stack) - 1) ELSE pc' = pc + 5

ArgPassed == call_stack' = call_stack /\ pc' = pc + 4 /\ ~finished'

\* C36: check_arg_count n branches exactly when argument n was provided,
\* that is when the current routine was called with at least n arguments,
\* whatever the number of locals the routine declares; with an empty call
\* stack the condition is false.
C36_ArgCount == [][(lastOp' = "step" /\ ~finished /\ ~waiting_for_input /\ pc + 4 < Len(memory) /\ ArgCheckAtPC /\ (call_stack = <<>> \/ CalledFromStart)) => (raised' = "none" /\ IF ArgProvided = (ReadByte(memory, pc + 3) >= 128) THEN ArgBranched ELSE ArgPassed)]_vars

(***************************************************************************)
(* save and restore                                                        *)
(***************************************************************************)
\* The instruction at pc is save or restore: the 0OP opcodes 181 and 182,
\* or from version 5 the extended opcodes 0 and 1 without operands.
SaveExtAtPC == version >= 5 /\ Opcode = 190 /\ ReadByte(memory, pc + 1) \in {0, 1} /\ ReadByte(memory, pc + 2) = 255

SaveAtPC == Opcode \in {181, 182} \/ SaveExtAtPC

\* What the instruction reports: 1 for save, 0 for restore.
SaveReport == IF Opcode = 181 \/ (Opcode = 190 /\ ReadByte(memory, pc + 1) = 0) THEN 1 ELSE 0

\* The store byte of the instruction and its length with it.
SaveLength == IF Opcode = 190 THEN 4 ELSE 2

SaveStore == ReadByte(memory, pc + SaveLength - 1)

\* Memory after the step is memory before it, but for the word of the
\* global the report is stored in.
MemoryKept(var_num) == \A a \in 0..(Len(memory) - 1) : (var_num < 16 \/ a \notin {Header.globals + 2 * (var_num - 16), Header.globals + 2 * (var_num - 16) + 1}) => ReadByte(memory', a) = ReadByte(memory, a)

\* Versions 4 and later: the report is in the store variable.
SaveStored == ValueAfter(SaveStore) = SaveReport /\ pc' = pc + SaveLength /\ MemoryKept(SaveStore)

\* Versions up to 3: the branch is taken exactly when the report agrees
\* with the polarity of the branch field.
SaveBranched == memory' = memory /\ pc' = pc + 1 + BranchLen(pc + 1) + (IF (SaveReport = 1) = BranchAt(pc + 1).on_true THEN BranchAt(pc + 1).offset - 2 ELSE 0)

\* C37: in every version save always reports success and restore always
\* reports failure, without raising an error and without changing memory:
\* through the store variable (1 resp. 0) in versions 4 and later and
\* through the branch outcome in versions up to 3.
C37_SaveRestoreReport == [][(lastOp' = "step" /\ ~finished /\ ~waiting_for_input /\ pc + 4 < Len(memory) /\ SaveAtPC) => (raised' = "none" /\ IF version >= 4 THEN SaveStored ELSE SaveBranched)]_vars

(***************************************************************************)
(* get_property_len                                                        *)
(***************************************************************************)
\* The sizes the table of obj gives to property prop: one size when obj has
\* the property, none otherwise.
SizesOf(obj, prop) == {TableOf(obj).entries[i].size : i \in {j \in 1..Len(NumbersOf(obj)) : NumbersOf(obj)[j] = prop}}

\* The largest size of a property.
MaxPropSize == IF version <= 3 THEN 8 ELSE 64

\* get_property_len was called with the result of get_property_addr(obj,
\* prop), kept in visited.
LenOfPresent == lastOp = "get_property_len" /\ HasProperty(lastArg.obj, lastArg.prop)

\* C38: get_property_len agrees with property lookup: for every property p
\* present on an object, get_property_len(get_property_addr(obj, p)) is the
\* data size _find_property computes for p, which is the size of p in the
\* table (1..8 up to version 3, 1..64 from version 4), and
\* get_property_len(0) is 0.
C38_LenAgreesWithLookup == (LenOfPresent => (raised = "none" /\ lastArg.visited # <<0>> /\ lastArg.result = FindProperty(memory, lastArg.obj, lastArg.prop).size /\ SizesOf(lastArg.obj, lastArg.prop) = {lastArg.result} /\ lastArg.result \in 1..MaxPropSize)) /\ ((lastOp = "get_property_len" /\ lastArg.visited = <<0>>) => (raised = "none" /\ lastArg.result = 0))

C38_Witness == lastOp = "get_property_len" /\ raised = "none" /\ version = 5 /\ lastArg.obj = 1 /\ lastArg.prop = 63 /\ lastArg.visited = <<TableAddr(5) + 5>> /\ lastArg.result = 64

(***************************************************************************)
(* Waiting for input                                                       *)
(***************************************************************************)
\* C39: in every state reachable through step, run, send_input, save_state,
\* restore_state and restart, waiting_for_input is true exactly when an
\* input continuation is registered, so that a waiting machine can always
\* be resumed by send_input and a machine that does not wait holds no stale
\* continuation.
C39_WaitingIffContinuation == waiting_for_input <=> (pending_input_callback # NoCallback)

(***************************************************************************)
(* restore_state and the output                                            *)
(***************************************************************************)
\* C40: restore_state changes neither the finished flag, the output buffer
\* nor instruction_count: a machine that has finished is still finished
\* after restoring a snapshot taken before it ended, and text printed
\* before the restore is still returned by the next get_output.
C40_RestoreKeepsOutput == [][(lastOp' = "restore_state" => (raised' = "none" /\ finished' = finished /\ output_buffer' = output_buffer /\ instruction_count' = instruction_count)) /\ (lastOp' = "get_output" => lastArg'.result = lastArg'.printed)]_vars

C40_Witness == lastOp = "restore_state" /\ raised = "none" /\ finished /\ pc = Header.initial_pc /\ instruction_count = 5 /\ output_buffer = <<65, 45, 51, 10>> /\ lastArg.printed = <<65, 45, 51, 10>>

====
